---- MODULE Spec2Model ----
(***************************************************************************)
(* Model of the lumehaven backend core:                                    *)
(*   - state/store.py      SignalStore: signals map + bounded-queue fan-out*)
(*   - adapters/manager.py AdapterManager (and its copy in main.py that    *)
(*                         the FastAPI lifespan instantiates)              *)
(*   - config.py           Settings                                        *)
(*                                                                         *)
(* Scheduling is asyncio's: a task runs without interleaving until it      *)
(* reaches an await that really suspends.  `async with self._lock` in the  *)
(* store never suspends, because no lock body contains an await, so the    *)
(* lock is free whenever a task is scheduled; store methods are therefore  *)
(* single atomic steps.  Suspension points are adapter.get_signals(), the  *)
(* adapter's event iteration, asyncio.sleep(), queue.get() on an empty     *)
(* queue, `await task` on an unfinished task and adapter.close() on an     *)
(* open client.                                                            *)
(***************************************************************************)
EXTENDS Naturals, Integers, Sequences, FiniteSets, TLC

\* ------------------------------------------------------------------ bounds
QueueSize == 2          \* largest settings.subscriber_queue_size
MaxPublishes == 3       \* publish calls recorded in the store specification
MaxTime == 1            \* largest value of the monotonic clock
MockDropLogInterval == 1 \* drop_log_interval of the tests' mocked settings

MaxFaults == 2          \* upstream failures (refused snapshot, ended or
                        \* broken event stream) injected in a run
MaxPending == 1         \* pending drop count up to which pumps keep publishing
MaxStopCalls == 2       \* stop_all() calls made by the application
MaxBackoffFaults == 8   \* upstream failures injected in the backoff
                        \* specification (one adapter, no shutdown)
MaxStartCalls == 2      \* start_all() calls of a caller that starts the
                        \* manager again

\* ------------------------------------------------------ program constants
INITIAL_RETRY_DELAY == 5
MAX_RETRY_DELAY == 300
RETRY_BACKOFF_FACTOR == 2
StartCalls == 1         \* lifespan() calls manager.start_all() once

\* --------------------------------------------------------------- universes
Adapters == {"a1", "a2"}
\* every fault creates at most one task and every adapter one more pump
TaskIds == 1..(MaxFaults + Cardinality(Adapters))
NoTask == 0
Ids == {"x", "y"}
\* a published signal carries the number of its publish call as its value,
\* which makes every published signal distinguishable in the histories
Signals == [id : Ids, value : 1..MaxPublishes]
Consumers == {"c1", "c2"}
Publishers == {"p1", "p2"}
None == "None"
NoValue == 0            \* what the signals map holds for an id never written

\* config.py Settings has subscriber_queue_size but no drop_log_interval
\* attribute; reading a missing attribute of the pydantic model raises
\* AttributeError.  The unit tests replace get_settings() by a Mock that has
\* both attributes.
RealSettings ==
    [subscriber_queue_size |-> 1, has_drop_log_interval |-> FALSE,
     drop_log_interval |-> 0]
MockSettings ==
    [subscriber_queue_size |-> 1, has_drop_log_interval |-> TRUE,
     drop_log_interval |-> MockDropLogInterval]
SettingsChoices == {RealSettings, MockSettings}
\* the same with every subscriber_queue_size from 1 up to the bound
QueueSizeChoices ==
    {[s EXCEPT !.subscriber_queue_size = n] :
        s \in SettingsChoices, n \in 1..QueueSize}

VARIABLES
    settings,       \* the object get_settings() returns
    signals,        \* SignalStore._signals : id -> value, NoValue when missing
    subscribers,    \* SignalStore._subscribers, queues named by consumer
    queues,         \* contents of each subscriber's asyncio.Queue
    drop_stats,     \* SignalStore._drop_stats : queue -> record or None
    now,            \* time.monotonic()
    consumer,       \* position of each subscribe() generator
    delivered,      \* history: signals each consumer has dequeued
    pubLog,         \* history: signals in order of the publish calls
    lastOp          \* history: the last store operation and its outcome

storeVars == <<settings, signals, subscribers, queues, drop_stats, now,
               consumer, delivered, pubLog, lastOp>>

VARIABLES
    impl,           \* which AdapterManager class is instantiated
    registered,     \* keys of AdapterManager.states in insertion order
    states,         \* AdapterManager.states : name -> AdapterState
    retry_tasks,    \* AdapterManager._retry_tasks in insertion order
    tasks,          \* the asyncio tasks created by the manager
    client,         \* per adapter: its HTTP client (_client) is open
    main,           \* the application task that calls start_all/stop_all
    faults,         \* upstream failures the environment may still inject
    startOk,        \* history: adapters whose snapshot succeeded in start_all
    pumpSeen,       \* history: what each adapter's pump last observed
    retryLog        \* history: per adapter, failed snapshot attempts and
                    \* backoff sleeps since its last successful snapshot

mgrVars == <<impl, registered, states, retry_tasks, tasks, client, main,
             faults, startOk, pumpSeen, retryLog>>

VARIABLES
    given,          \* the input last handed to a conversion function
    result          \* what the conversion returned for it

convVars == <<given, result>>

VARIABLES
    yielded,        \* history: per adapter, how many signals its
                    \* subscribe_events() generators have yielded to the pump
    forwarded       \* history: per adapter, the signals its pump has passed
                    \* to store.publish, in call order

fwdVars == <<yielded, forwarded>>

vars == <<settings, signals, subscribers, queues, drop_stats, now,
          consumer, delivered, pubLog, lastOp, impl, registered, states,
          retry_tasks, tasks, client, main, faults, startOk, pumpSeen,
          retryLog, given, result, yielded, forwarded>>

\* no conversion has run
NoConversion == [fn |-> None]
ConvInit == given = NoConversion /\ result = NoConversion

NoDrop == [count |-> 0 - 1, last |-> 0 - 1]

NoOp == [op |-> "none", sig |-> [id |-> None, value |-> 0],
         caller |-> None, order |-> <<>>,
         raised |-> FALSE, warnings |-> 0,
         manager |-> FALSE,
         response |-> [status |-> None, signal_count |-> 0,
                       subscriber_count |-> 0, adapters |-> <<>>],
         preQueues |-> [c \in Consumers |-> <<>>],
         preDrops |-> [c \in Consumers |-> NoDrop],
         preSubs |-> {}]

\* ----------------------------------------------------------- pure helpers
RECURSIVE SeqOfSet(_)
\* the sequences that enumerate a finite set without repetition:
\* list(self._subscribers) iterates a hash set in an arbitrary order
SeqOfSet(S) ==
    IF S = {} THEN {<<>>}
    ELSE UNION {{<<x>> \o rest : rest \in SeqOfSet(S \ {x})} : x \in S}

Min(a, b) == IF a <= b THEN a ELSE b

\* SignalStore.set: self._signals[signal.id] = signal
StoreSetSkip(sigs, s) == sigs
StoreSet(sigs, s) == [sigs EXCEPT ![s.id] = s.value]

\* asyncio.Queue.put_nowait on a queue constructed with maxsize
QueueFull(q, st) == Len(q) >= st.subscriber_queue_size

\* SignalStore._log_drop_throttled.  acc carries the drop_stats record of
\* the queue, the number of warnings logged and whether the call raised.
LogDropThrottled(rec, t, st) ==
    IF ~st.has_drop_log_interval
    THEN \* settings.drop_log_interval: AttributeError before any effect
         [rec |-> rec, warned |-> 0, raised |-> TRUE]
    ELSE IF rec = NoDrop
    THEN [rec |-> [count |-> 0, last |-> t], warned |-> 1, raised |-> FALSE]
    ELSE IF t - rec.last >= st.drop_log_interval
    THEN [rec |-> [count |-> 0, last |-> t], warned |-> 1, raised |-> FALSE]
    ELSE [rec |-> [count |-> rec.count + 1, last |-> rec.last],
          warned |-> 0, raised |-> FALSE]

\* whether the enqueue primitive waits for room: queue.put_nowait never
\* waits, it returns or raises QueueFull at once
PutWouldBlockWhenFull(q, st) == QueueFull(q, st)
PutWouldBlock(q, st) == FALSE

\* the enqueue of one signal on one subscriber queue: put_nowait appends
EnqueueFront(q, s) == <<s>> \o q
Enqueue(q, s) == Append(q, s)

RECURSIVE FanOut(_, _, _, _, _, _, _)
\* the for loop of SignalStore.publish over the snapshot `order`; an
\* exception leaving _log_drop_throttled ends the loop and the call
FanOut(order, s, qs, ds, t, st, warned) ==
    IF order = <<>>
    THEN [queues |-> qs, drops |-> ds, warned |-> warned, raised |-> FALSE]
    ELSE LET q == Head(order) IN
         IF ~QueueFull(qs[q], st)
         THEN FanOut(Tail(order), s, [qs EXCEPT ![q] = Enqueue(qs[q], s)],
                     [ds EXCEPT ![q] = NoDrop], t, st, warned)
         ELSE LET r == LogDropThrottled(ds[q], t, st) IN
              IF r.raised
              THEN [queues |-> qs, drops |-> ds, warned |-> warned,
                    raised |-> TRUE]
              ELSE FanOut(Tail(order), s, qs, [ds EXCEPT ![q] = r.rec], t,
                          st, warned + r.warned)

\* SignalStore.publish as a function of the store state
PublishResult(order, s, sigs, qs, ds, t, st) ==
    LET f == FanOut(order, s, qs, ds, t, st, 0) IN
    [signals |-> StoreSet(sigs, s), queues |-> f.queues, drops |-> f.drops,
     warned |-> f.warned, raised |-> f.raised]

\* the methods of SignalStore whose body runs inside `async with
\* self._lock`; publish takes the lock only through its call of set, and
\* register_subscriber / unregister_subscriber are plain functions that
\* never take it
MutexHeldIn(fn) == fn \in {"get_all", "get", "set", "set_many"}

\* ------------------------------------------------------------ store steps
StoreInitWith(choices) ==
    /\ settings \in choices
    /\ signals = [i \in Ids |-> NoValue]
    /\ subscribers = {}
    /\ queues = [c \in Consumers |-> <<>>]
    /\ drop_stats = [c \in Consumers |-> NoDrop]
    /\ now = 0
    /\ consumer = [c \in Consumers |-> "none"]
    /\ delivered = [c \in Consumers |-> <<>>]
    /\ pubLog = <<>>
    /\ lastOp = NoOp

StoreInit == StoreInitWith(SettingsChoices)

\* time passes
Tick ==
    /\ now < MaxTime
    /\ now' = now + 1
    /\ lastOp' = NoOp
    /\ UNCHANGED <<settings, signals, subscribers, queues, drop_stats,
                   consumer, delivered, pubLog>>
    /\ UNCHANGED <<mgrVars, convVars, fwdVars>>

\* store.subscribe(): creates the async generator; no code of it runs yet
Subscribe(c) ==
    /\ consumer[c] = "none"
    /\ consumer' = [consumer EXCEPT ![c] = "created"]
    /\ lastOp' = NoOp
    /\ UNCHANGED <<settings, signals, subscribers, queues, drop_stats, now,
                   delivered, pubLog>>
    /\ UNCHANGED <<mgrVars, convVars, fwdVars>>

\* first __anext__: register_subscriber(), then await queue.get() suspends
ConsumerStart(c) ==
    /\ consumer[c] = "created"
    /\ consumer' = [consumer EXCEPT ![c] = "waiting"]
    /\ subscribers' = subscribers \cup {c}
    /\ queues' = [queues EXCEPT ![c] = <<>>]
    /\ lastOp' = NoOp
    /\ UNCHANGED <<settings, signals, drop_stats, now, delivered, pubLog>>
    /\ UNCHANGED <<mgrVars, convVars, fwdVars>>

\* queue.get() returns the head of the queue and the generator yields it
Dequeue(c) ==
    /\ consumer[c] \in {"waiting", "yielded"}
    /\ queues[c] # <<>>
    /\ consumer' = [consumer EXCEPT ![c] = "yielded"]
    /\ delivered' = [delivered EXCEPT ![c] = Append(@, Head(queues[c]))]
    /\ queues' = [queues EXCEPT ![c] = Tail(@)]
    /\ lastOp' = NoOp
    /\ UNCHANGED <<settings, signals, subscribers, drop_stats, now, pubLog>>
    /\ UNCHANGED <<mgrVars, convVars, fwdVars>>

\* the consumer asks for the next item and queue.get() suspends (empty)
ConsumerWait(c) ==
    /\ consumer[c] = "yielded"
    /\ queues[c] = <<>>
    /\ consumer' = [consumer EXCEPT ![c] = "waiting"]
    /\ lastOp' = NoOp
    /\ UNCHANGED <<settings, signals, subscribers, queues, drop_stats, now,
                   delivered, pubLog>>
    /\ UNCHANGED <<mgrVars, convVars, fwdVars>>

\* SignalStore.unregister_subscriber(queue): discard the queue and pop its
\* drop record
UnregisterKeepsDrops(c, subs, ds) == [subscribers |-> subs \ {c}, drops |-> ds]
UnregisterSubscriber(c, subs, ds) ==
    [subscribers |-> subs \ {c}, drops |-> [ds EXCEPT ![c] = NoDrop]]

\* the finally clause of subscribe() runs; how records which path led to it
ReleaseWithoutUnregister(c, how) ==
    /\ consumer' = [consumer EXCEPT ![c] = "closed"]
    /\ lastOp' = [NoOp EXCEPT !.op = how, !.caller = c,
                              !.preDrops = drop_stats,
                              !.preSubs = subscribers]
    /\ UNCHANGED <<settings, signals, subscribers, queues, drop_stats, now,
                   delivered, pubLog>>
    /\ UNCHANGED <<mgrVars, convVars, fwdVars>>
Release(c, how) ==
    LET u == UnregisterSubscriber(c, subscribers, drop_stats) IN
    /\ consumer' = [consumer EXCEPT ![c] = "closed"]
    /\ subscribers' = u.subscribers
    /\ drop_stats' = u.drops
    /\ queues' = [queues EXCEPT ![c] = <<>>]
    /\ lastOp' = [NoOp EXCEPT !.op = how, !.caller = c,
                              !.preDrops = drop_stats,
                              !.preSubs = subscribers]
    /\ UNCHANGED <<settings, signals, now, delivered, pubLog>>
    /\ UNCHANGED <<mgrVars, convVars, fwdVars>>

\* the consumer's task is cancelled while the generator awaits queue.get(),
\* or the consumer calls aclose() on the generator suspended at its yield:
\* the exception is raised inside subscribe() and its finally clause runs
\* at once
ConsumerClose(c) ==
    /\ consumer[c] \in {"waiting", "yielded"}
    /\ Release(c, "close")

\* the consumer leaves its `async for` (break, an error in its body, or,
\* for signal_event_generator, its own close or cancellation at its yield)
\* while subscribe() is suspended at `yield signal`: `async for` does not
\* close the iterator, so no code of subscribe() runs
ConsumerAbandon(c) ==
    /\ consumer[c] = "yielded"
    /\ consumer' = [consumer EXCEPT ![c] = "abandoned"]
    /\ lastOp' = NoOp
    /\ UNCHANGED <<settings, signals, subscribers, queues, drop_stats, now,
                   delivered, pubLog>>
    /\ UNCHANGED <<mgrVars, convVars, fwdVars>>

\* the abandoned generator is finalized: the event loop's asynchronous
\* generator hook schedules its aclose() once it is unreachable (and
\* shutdown_asyncgens() closes it at loop shutdown); GeneratorExit is
\* raised at the yield and the finally clause runs
GeneratorFinalize(c) ==
    /\ consumer[c] = "abandoned"
    /\ Release(c, "finalize")

\* await store.publish(s) by caller p, with the iteration order `order`
PublishAs(p, s, order) ==
    LET r == PublishResult(order, s, signals, queues, drop_stats, now,
                           settings) IN
    /\ signals' = r.signals
    /\ queues' = r.queues
    /\ drop_stats' = r.drops
    /\ lastOp' = [op |-> "publish", sig |-> s, caller |-> p,
                  order |-> order, raised |-> r.raised,
                  warnings |-> r.warned, preQueues |-> queues,
                  preDrops |-> drop_stats, preSubs |-> subscribers]

Publish(p, s) ==
    /\ Len(pubLog) < MaxPublishes
    /\ s.value = Len(pubLog) + 1
    /\ \A c \in subscribers : ~PutWouldBlock(queues[c], settings)
    /\ \E order \in SeqOfSet(subscribers) : PublishAs(p, s, order)
    /\ pubLog' = Append(pubLog, s)
    /\ UNCHANGED <<settings, subscribers, now, consumer, delivered>>
    /\ UNCHANGED <<mgrVars, convVars, fwdVars>>

\* ---------------------------------------------------------- manager state
\* adapter objects: a configuration may hold two adapters of one name
Instances == {1, 2}

AdapterState0 ==
    [adapter |-> 0, sync_task |-> NoTask, connected |-> FALSE,
     error |-> None, retry_delay |-> INITIAL_RETRY_DELAY]

\* AdapterState(adapter=adapter)
NewAdapterState(inst) == [AdapterState0 EXCEPT !.adapter = inst]
NoRetryLog == [failed |-> 0, slept |-> 0]
NoTaskRec == [kind |-> "none", name |-> None, pc |-> "none", cancel |-> FALSE]

\* the manager as constructed by lifespan(); n is the number of upstream
\* failures the environment will inject
MgrInitWith(n) ==
    /\ impl \in {"adapters.manager", "main"}
    /\ registered = <<>>
    /\ states = [a \in Adapters |-> AdapterState0]
    /\ retry_tasks = <<>>
    /\ tasks = [t \in TaskIds |-> NoTaskRec]
    /\ client = [a \in Adapters |-> FALSE]
    /\ main = [pc |-> "idle", idx |-> 0, size |-> 0, await |-> NoTask,
               starts |-> 0, stops |-> 0, last |-> "none", closed |-> {}]
    /\ faults = n
    /\ startOk = {}
    /\ pumpSeen = [a \in Adapters |-> "ok"]
    /\ retryLog = [a \in Adapters |-> NoRetryLog]

MgrInit == MgrInitWith(MaxFaults)

\* no pump has received a signal
FwdInit ==
    /\ yielded = [a \in Adapters |-> 0]
    /\ forwarded = [a \in Adapters |-> <<>>]

TaskDone(t) == tasks[t].pc \in {"done", "cancelled", "failed"}
Alive(t) == tasks[t].kind # "none" /\ ~TaskDone(t)
CanCreate(tk) == \E t \in TaskIds : tk[t].kind = "none"
NewTask(tk) == CHOOSE t \in TaskIds :
    tk[t].kind = "none" /\ \A u \in TaskIds : tk[u].kind = "none" => t <= u
RetryNames(rt) == {rt[i].name : i \in DOMAIN rt}
RemoveNameKeeps(rt, a) == rt
RemoveName(rt, a) == SelectSeq(rt, LAMBDA e : e.name # a)
IsRegistered(a) == \E i \in DOMAIN registered : registered[i] = a

\* while the application task runs code between two suspension points no
\* other task is scheduled
MainBusy == main.pc \in {"st_retry", "st_sync"}

\* the upstream: each adapter owns one item; a snapshot reports value 2 for
\* it and a live event value 1
IdOf(a) == IF a = "a1" THEN "x" ELSE "y"
SnapshotSignals(a) == {[id |-> IdOf(a), value |-> 2]}

\* SignalStore.set_many: self._signals.update(signals)
StoreSetManyReplace(sigs, S) ==
    [i \in Ids |-> IF \E s \in S : s.id = i
                   THEN (CHOOSE s \in S : s.id = i).value
                   ELSE NoValue]
StoreSetMany(sigs, S) ==
    [i \in Ids |-> IF \E s \in S : s.id = i
                   THEN (CHOOSE s \in S : s.id = i).value
                   ELSE sigs[i]]

\* retry_delay = min(retry_delay * RETRY_BACKOFF_FACTOR, MAX_RETRY_DELAY)
BackoffUncapped(d) == d * RETRY_BACKOFF_FACTOR
Backoff(d) == Min(d * RETRY_BACKOFF_FACTOR, MAX_RETRY_DELAY)

\* AdapterManager._schedule_retry(name): returns the new task table and
\* pending-retries map
ScheduleRetryNever(a, tk, rt) == [tasks |-> tk, retry |-> rt]
ScheduleRetry(a, tk, rt) ==
    IF a \in RetryNames(rt)
    THEN [tasks |-> tk, retry |-> rt]
    ELSE LET n == NewTask(tk) IN
         [tasks |-> [tk EXCEPT ![n] = [kind |-> "retry", name |-> a,
                                       pc |-> "sleep", cancel |-> FALSE]],
          retry |-> Append(rt, [name |-> a, task |-> n])]

\* AdapterManager._start_adapter from the point where adapter.get_signals()
\* returns (ok) or raises (~ok)
StartAdapterDoneNoPump(a, ok, sigs, st, tk, rt) ==
    IF ok
    THEN [signals |-> StoreSetMany(sigs, SnapshotSignals(a)),
          states |-> [st EXCEPT ![a].connected = TRUE, ![a].error = None,
                                ![a].retry_delay = INITIAL_RETRY_DELAY],
          tasks |-> tk, retry |-> rt]
    ELSE LET r == ScheduleRetry(a, tk, rt) IN
         [signals |-> sigs,
          states |-> [st EXCEPT ![a].connected = FALSE,
                                ![a].error = "ConnectionError"],
          tasks |-> r.tasks, retry |-> r.retry]
StartAdapterDone(a, ok, sigs, st, tk, rt) ==
    IF ok
    THEN LET n == NewTask(tk) IN
         [signals |-> StoreSetMany(sigs, SnapshotSignals(a)),
          states |-> [st EXCEPT ![a].sync_task = n,
                                ![a].connected = TRUE,
                                ![a].error = None,
                                ![a].retry_delay = INITIAL_RETRY_DELAY],
          tasks |-> [tk EXCEPT ![n] = [kind |-> "sync", name |-> a,
                                       pc |-> "events", cancel |-> FALSE]],
          retry |-> rt]
    ELSE LET r == ScheduleRetry(a, tk, rt) IN
         [signals |-> sigs,
          states |-> [st EXCEPT ![a].connected = FALSE,
                                ![a].error = "ConnectionError"],
          tasks |-> r.tasks,
          retry |-> r.retry]

\* history of the backoff cursor: a snapshot attempt that succeeds clears
\* the record; one that fails is counted, together with the backoff sleep it
\* starts (if it starts one)
LogAttempt(log, ok, sleeps) ==
    IF ok THEN NoRetryLog
    ELSE [failed |-> log.failed + 1,
          slept |-> IF sleeps THEN log.slept + 1 ELSE log.slept]
\* a backoff sleep starts without a snapshot attempt having failed
LogSleep(log, sleeps) ==
    IF sleeps THEN [log EXCEPT !.slept = @ + 1] ELSE log

\* a free task slot exists for what _start_adapter will create
StartAdapterFits(a, ok) ==
    (ok \/ a \notin RetryNames(retry_tasks)) => CanCreate(tasks)

\* ----------------------------------------------------------- registration
\* AdapterManager.add(adapter), called by lifespan() before start_all()
\* manager.add(adapter) in lifespan, adapter being object inst of name a.
\* adapters/manager.py raises ValueError for a registered name, which ends
\* the startup; the main.py class assigns self.states[name] in every case
Add(a, inst) ==
    /\ main.pc = "idle" /\ main.last = "none"
    /\ IF IsRegistered(a) /\ impl = "adapters.manager"
       THEN /\ main' = [main EXCEPT !.pc = "crashed"]
            /\ UNCHANGED <<registered, states, retryLog>>
       ELSE /\ registered' = IF IsRegistered(a) THEN registered
                                               ELSE Append(registered, a)
            /\ states' = [states EXCEPT ![a] = NewAdapterState(inst)]
            /\ retryLog' = [retryLog EXCEPT ![a] = NoRetryLog]
            /\ UNCHANGED main
    /\ UNCHANGED <<convVars, fwdVars>>
    /\ UNCHANGED <<impl, retry_tasks, tasks, client, faults, startOk,
                   pumpSeen>>
    /\ UNCHANGED storeVars

\* -------------------------------------------------------------- start_all
\* start_all() is called; it runs to the first await adapter.get_signals(),
\* which opens the adapter's HTTP client
StartAllCallUpTo(n) ==
    /\ main.pc = "idle" /\ main.starts < n
    /\ registered # <<>>
    /\ main' = [main EXCEPT !.pc = "sa_snapshot", !.idx = 1,
                            !.starts = @ + 1, !.last = "start"]
    /\ client' = [client EXCEPT ![registered[1]] = TRUE]
    /\ startOk' = {}
    /\ UNCHANGED <<convVars, fwdVars>>
    /\ UNCHANGED <<impl, retryLog, registered, states, retry_tasks, tasks, faults, pumpSeen>>
    /\ UNCHANGED storeVars

\* the start_all() call of lifespan()
StartAllCall == StartAllCallUpTo(StartCalls)

\* get_signals() of the adapter start_all is at returns or raises; the rest
\* of _start_adapter runs, and start_all goes on to the next adapter's
\* get_signals() or returns
StartSnapshotDone(ok) ==
    LET a == registered[main.idx]
        r == StartAdapterDone(a, ok, signals, states, tasks, retry_tasks)
        more == main.idx < Len(registered) IN
    /\ main.pc = "sa_snapshot"
    /\ ok \/ faults > 0
    /\ StartAdapterFits(a, ok)
    /\ faults' = IF ok THEN faults ELSE faults - 1
    /\ signals' = r.signals /\ states' = r.states
    /\ tasks' = r.tasks /\ retry_tasks' = r.retry
    /\ startOk' = IF ok THEN startOk \cup {a} ELSE startOk
    /\ pumpSeen' = IF ok THEN [pumpSeen EXCEPT ![a] = "ok"] ELSE pumpSeen
    /\ main' = IF more THEN [main EXCEPT !.idx = @ + 1]
                       ELSE [main EXCEPT !.pc = "idle", !.idx = 0]
    /\ client' = IF more THEN [client EXCEPT ![registered[main.idx + 1]] = TRUE]
                         ELSE client
    /\ retryLog' = [retryLog EXCEPT ![a] =
                        LogAttempt(@, ok, a \notin RetryNames(retry_tasks))]
    /\ UNCHANGED <<convVars, fwdVars>>
    /\ UNCHANGED <<impl, registered>>
    /\ UNCHANGED <<settings, subscribers, queues, drop_stats, now, consumer,
                   delivered, pubLog, lastOp>>

\* ------------------------------------------------------------ retry tasks
\* the sleep of a retry task elapses: the delay advances, the task removes
\* its name from _retry_tasks and enters _start_adapter up to get_signals()
RetryWake(t) ==
    LET a == tasks[t].name IN
    /\ ~MainBusy
    /\ tasks[t].kind = "retry" /\ tasks[t].pc = "sleep" /\ ~tasks[t].cancel
    /\ states' = [states EXCEPT ![a].retry_delay = Backoff(@)]
    /\ IF a \in RetryNames(retry_tasks)
       THEN /\ retry_tasks' = RemoveName(retry_tasks, a)
            /\ tasks' = [tasks EXCEPT ![t].pc = "snapshot"]
            /\ client' = [client EXCEPT ![a] = TRUE]
       ELSE \* del self._retry_tasks[name] raises KeyError
            /\ tasks' = [tasks EXCEPT ![t].pc = "failed"]
            /\ UNCHANGED <<retry_tasks, client>>
    /\ UNCHANGED <<convVars, fwdVars>>
    /\ UNCHANGED <<impl, retryLog, registered, main, faults, startOk, pumpSeen>>
    /\ UNCHANGED storeVars

\* get_signals() called by a retry task returns or raises; the rest of
\* _start_adapter runs and the retry task ends.  Nothing refers to a retry
\* task that has ended this way (it removed itself from _retry_tasks), so
\* the task object is gone
RetrySnapshotDone(t, ok) ==
    LET a == tasks[t].name
        r == StartAdapterDone(a, ok, signals, states, tasks, retry_tasks) IN
    /\ ~MainBusy
    /\ tasks[t].kind = "retry" /\ tasks[t].pc = "snapshot" /\ ~tasks[t].cancel
    /\ ok \/ faults > 0
    /\ StartAdapterFits(a, ok)
    /\ faults' = IF ok THEN faults ELSE faults - 1
    /\ signals' = r.signals /\ states' = r.states
    /\ tasks' = [r.tasks EXCEPT ![t] = NoTaskRec]
    /\ retry_tasks' = r.retry
    /\ pumpSeen' = IF ok THEN [pumpSeen EXCEPT ![a] = "ok"] ELSE pumpSeen
    /\ retryLog' = [retryLog EXCEPT ![a] =
                        LogAttempt(@, ok, a \notin RetryNames(retry_tasks))]
    /\ UNCHANGED <<convVars, fwdVars>>
    /\ UNCHANGED <<impl, registered, client, main, startOk>>
    /\ UNCHANGED <<settings, subscribers, queues, drop_stats, now, consumer,
                   delivered, pubLog, lastOp>>

\* where _sync_with_retry goes when CancelledError is raised at the await
\* it is suspended in (pc): in the event loop and store.publish
\* `except asyncio.CancelledError: raise` re-raises it, the backoff sleep is
\* in no try block, and the `except Exception` of the reconnect block does
\* not match CancelledError (a BaseException)
PumpOnCancelSwallowed(pc) == IF pc = "snapshot" THEN "events" ELSE "cancelled"
PumpOnCancel(pc) == "cancelled"

\* a task with a pending cancel() is resumed: CancelledError is raised at
\* its await.  The retry task body has no handler for it
TaskCancelled(t) ==
    LET next == IF tasks[t].kind = "sync" THEN PumpOnCancel(tasks[t].pc)
                ELSE "cancelled" IN
    /\ ~MainBusy
    /\ Alive(t) /\ tasks[t].cancel
    /\ tasks' = [tasks EXCEPT ![t].pc = next,
                              ![t].cancel = (next = "cancelled")]
    /\ UNCHANGED <<convVars, fwdVars>>
    /\ UNCHANGED <<impl, retryLog, registered, states, retry_tasks, client, main,
                   faults, startOk, pumpSeen>>
    /\ UNCHANGED storeVars

\* ------------------------------------------------------------- pump tasks
\* _sync_with_retry when `async for signal in adapter.subscribe_events()`
\* ends without an exception.  adapters/manager.py marks the adapter
\* disconnected and falls through to the backoff sleep; the copy in main.py
\* has no code after the loop, so `while True` calls subscribe_events() again
PumpOnStreamEnd(i, s) ==
    IF i = "adapters.manager"
    THEN [state |-> [s EXCEPT !.connected = FALSE,
                              !.error = "Event stream closed by server"],
          pc |-> "sleep"]
    ELSE [state |-> s, pc |-> "events"]

\* the except Exception clause of _sync_with_retry
PumpOnErrorEndsTask(s, cause) ==
    [state |-> [s EXCEPT !.connected = FALSE, !.error = cause],
     pc |-> "failed"]
PumpOnError(s, cause) ==
    [state |-> [s EXCEPT !.connected = FALSE, !.error = cause],
     pc |-> "sleep"]

\* the reconnect block of _sync_with_retry once get_signals() has returned
\* (ok) or raised (~ok)
PumpOnReconnectResets(a, ok, sigs, s) ==
    [signals |-> IF ok THEN StoreSetMany(sigs, SnapshotSignals(a)) ELSE sigs,
     state |-> [s EXCEPT !.connected = ok, !.error = None,
                         !.retry_delay = INITIAL_RETRY_DELAY]]
PumpOnReconnect(a, ok, sigs, s) ==
    IF ok
    THEN [signals |-> StoreSetMany(sigs, SnapshotSignals(a)),
          state |-> [s EXCEPT !.connected = TRUE, !.error = None,
                              !.retry_delay = INITIAL_RETRY_DELAY]]
    ELSE [signals |-> sigs, state |-> s]

IsPumpAt(t, pc) ==
    /\ ~MainBusy
    /\ tasks[t].kind = "sync" /\ tasks[t].pc = pc /\ ~tasks[t].cancel

\* the body of `async for signal in adapter.subscribe_events()`: the
\* store.publish calls the pump makes for one yielded signal
PumpOnSignalSkips(s) == <<>>
PumpOnSignal(s) == <<s>>

\* subscribe_events() yields signal s to pump t and the loop body runs
PumpReceives(t, s) ==
    LET a == tasks[t].name
        e == PumpOnError(states[a], "AttributeError")
        calls == PumpOnSignal(s) IN
    /\ IsPumpAt(t, "events")
    /\ \A c \in subscribers : drop_stats[c].count < MaxPending
    /\ IF calls = <<>>
       THEN /\ lastOp' = NoOp
            /\ UNCHANGED <<signals, queues, drop_stats>>
       ELSE \E order \in SeqOfSet(subscribers) :
                PublishAs(t, Head(calls), order)
    /\ IF lastOp'.raised
       THEN /\ states' = [states EXCEPT ![a] = e.state]
            /\ tasks' = [tasks EXCEPT ![t].pc = e.pc]
            /\ pumpSeen' = [pumpSeen EXCEPT ![a] = "error"]
            /\ retryLog' = [retryLog EXCEPT ![a] = LogSleep(@, TRUE)]
       ELSE UNCHANGED <<states, tasks, pumpSeen, retryLog>>
    /\ UNCHANGED convVars
    /\ UNCHANGED <<impl, registered, retry_tasks, client, main, faults, startOk>>
    /\ UNCHANGED <<settings, subscribers, now, consumer, delivered, pubLog>>

\* subscribe_events() yields a signal and the pump awaits store.publish
PumpEvent(t) ==
    /\ PumpReceives(t, [id |-> IdOf(tasks[t].name), value |-> 1])
    /\ UNCHANGED fwdVars

\* the same with the upstream's events numbered: the n-th signal the
\* adapter's generators yield carries the value n
PumpForward(t) ==
    LET a == tasks[t].name
        s == [id |-> IdOf(a), value |-> yielded[a] + 1] IN
    /\ tasks[t].kind = "sync"
    /\ yielded[a] < MaxPublishes
    /\ PumpReceives(t, s)
    /\ yielded' = [yielded EXCEPT ![a] = @ + 1]
    /\ forwarded' = [forwarded EXCEPT ![a] = @ \o PumpOnSignal(s)]

\* the upstream closes the event stream: the iteration ends normally
PumpStreamEnd(t) ==
    LET a == tasks[t].name
        e == PumpOnStreamEnd(impl, states[a]) IN
    /\ IsPumpAt(t, "events")
    /\ faults > 0
    /\ faults' = faults - 1
    /\ states' = [states EXCEPT ![a] = e.state]
    /\ tasks' = [tasks EXCEPT ![t].pc = e.pc]
    /\ pumpSeen' = [pumpSeen EXCEPT ![a] = "end"]
    /\ retryLog' = [retryLog EXCEPT ![a] = LogSleep(@, e.pc = "sleep")]
    /\ UNCHANGED <<convVars, fwdVars>>
    /\ UNCHANGED <<impl, registered, retry_tasks, client, main, startOk>>
    /\ UNCHANGED storeVars

\* the event iteration raises (transport error)
PumpStreamError(t) ==
    LET a == tasks[t].name
        e == PumpOnError(states[a], "StreamError") IN
    /\ IsPumpAt(t, "events")
    /\ faults > 0
    /\ faults' = faults - 1
    /\ states' = [states EXCEPT ![a] = e.state]
    /\ tasks' = [tasks EXCEPT ![t].pc = e.pc]
    /\ pumpSeen' = [pumpSeen EXCEPT ![a] = "error"]
    /\ retryLog' = [retryLog EXCEPT ![a] = LogSleep(@, TRUE)]
    /\ UNCHANGED <<convVars, fwdVars>>
    /\ UNCHANGED <<impl, registered, retry_tasks, client, main, startOk>>
    /\ UNCHANGED storeVars

\* the backoff sleep of the pump elapses: the delay advances and the pump
\* awaits adapter.get_signals()
PumpWake(t) ==
    LET a == tasks[t].name IN
    /\ IsPumpAt(t, "sleep")
    /\ states' = [states EXCEPT ![a].retry_delay = Backoff(@)]
    /\ tasks' = [tasks EXCEPT ![t].pc = "snapshot"]
    /\ client' = [client EXCEPT ![a] = TRUE]
    /\ UNCHANGED <<convVars, fwdVars>>
    /\ UNCHANGED <<impl, retryLog, registered, retry_tasks, main, faults, startOk, pumpSeen>>
    /\ UNCHANGED storeVars

\* the reconnect get_signals() returns or raises; the loop continues with
\* subscribe_events() in both cases
PumpReconnectDone(t, ok) ==
    LET a == tasks[t].name
        r == PumpOnReconnect(a, ok, signals, states[a]) IN
    /\ IsPumpAt(t, "snapshot")
    /\ ok \/ faults > 0
    /\ faults' = IF ok THEN faults ELSE faults - 1
    /\ signals' = r.signals
    /\ states' = [states EXCEPT ![a] = r.state]
    /\ tasks' = [tasks EXCEPT ![t].pc = "events"]
    /\ pumpSeen' = IF ok THEN [pumpSeen EXCEPT ![a] = "ok"] ELSE pumpSeen
    /\ retryLog' = [retryLog EXCEPT ![a] = LogAttempt(@, ok, FALSE)]
    /\ UNCHANGED <<convVars, fwdVars>>
    /\ UNCHANGED <<impl, registered, retry_tasks, client, main, startOk>>
    /\ UNCHANGED <<settings, subscribers, queues, drop_stats, now, consumer,
                   delivered, pubLog, lastOp>>

\* --------------------------------------------------------------- stop_all
\* stop_all() is called: iter(self._retry_tasks.values()) is created
StopAllCall ==
    /\ main.pc = "idle" /\ main.stops < MaxStopCalls
    /\ main' = [main EXCEPT !.pc = "st_retry", !.idx = 1,
                            !.size = Len(retry_tasks), !.stops = @ + 1,
                            !.last = "stop", !.closed = {}]
    /\ UNCHANGED <<convVars, fwdVars>>
    /\ UNCHANGED <<impl, retryLog, registered, states, retry_tasks, tasks, client,
                   faults, startOk, pumpSeen>>
    /\ UNCHANGED storeVars

\* what `await task` gives once the task is done: CancelledError is
\* suppressed, any other exception of the task leaves stop_all
AwaitRaises(t) == tasks[t].pc = "failed"

\* head of `for task in self._retry_tasks.values()`: the dict iterator
\* raises RuntimeError when the dict changed size; otherwise the next task
\* is cancelled and awaited, or the loop ends and the map is cleared
StopRetryNext ==
    /\ main.pc = "st_retry"
    /\ IF Len(retry_tasks) # main.size
       THEN /\ main' = [main EXCEPT !.pc = "crashed"]
            /\ UNCHANGED <<retry_tasks, tasks>>
       ELSE IF main.idx > Len(retry_tasks)
       THEN /\ retry_tasks' = <<>>
            /\ main' = [main EXCEPT !.pc = "st_sync", !.idx = 1]
            /\ UNCHANGED tasks
       ELSE LET t == retry_tasks[main.idx].task IN
            /\ UNCHANGED retry_tasks
            /\ IF TaskDone(t)
               THEN /\ main' = IF AwaitRaises(t)
                               THEN [main EXCEPT !.pc = "crashed"]
                               ELSE [main EXCEPT !.idx = @ + 1]
                    /\ UNCHANGED tasks
               ELSE /\ tasks' = [tasks EXCEPT ![t].cancel = TRUE]
                    /\ main' = [main EXCEPT !.pc = "st_await_retry",
                                            !.await = t]
    /\ UNCHANGED <<convVars, fwdVars>>
    /\ UNCHANGED <<impl, retryLog, registered, states, client, faults, startOk, pumpSeen>>
    /\ UNCHANGED storeVars

\* the awaited retry task has ended
StopRetryAwaited ==
    /\ main.pc = "st_await_retry" /\ TaskDone(main.await)
    /\ main' = IF AwaitRaises(main.await)
               THEN [main EXCEPT !.pc = "crashed", !.await = NoTask]
               ELSE [main EXCEPT !.pc = "st_retry", !.idx = @ + 1,
                                 !.await = NoTask]
    /\ UNCHANGED <<convVars, fwdVars>>
    /\ UNCHANGED <<impl, retryLog, registered, states, retry_tasks, tasks, client,
                   faults, startOk, pumpSeen>>
    /\ UNCHANGED storeVars

\* after the sync task of registered[idx] is settled: adapter.close()
\* suspends in client.aclose() when the client is open
MainToClose(a) ==
    IF client[a] THEN [main EXCEPT !.pc = "st_await_close", !.await = NoTask,
                                   !.closed = @ \cup {a}]
    ELSE [main EXCEPT !.pc = "st_sync", !.idx = @ + 1, !.await = NoTask,
                      !.closed = @ \cup {a}]

\* head of `for name, state in self.states.items()`
StopSyncNext ==
    /\ main.pc = "st_sync"
    /\ IF main.idx > Len(registered)
       THEN /\ main' = [main EXCEPT !.pc = "idle", !.idx = 0]
            /\ UNCHANGED tasks
       ELSE LET a == registered[main.idx]
                t == states[a].sync_task IN
            IF t # NoTask /\ ~TaskDone(t)
            THEN /\ tasks' = [tasks EXCEPT ![t].cancel = TRUE]
                 /\ main' = [main EXCEPT !.pc = "st_await_sync", !.await = t]
            ELSE /\ main' = IF t # NoTask /\ AwaitRaises(t)
                            THEN [main EXCEPT !.pc = "crashed"]
                            ELSE MainToClose(a)
                 /\ UNCHANGED tasks
    /\ UNCHANGED <<convVars, fwdVars>>
    /\ UNCHANGED <<impl, retryLog, registered, states, retry_tasks, client, faults, startOk,
                   pumpSeen>>
    /\ UNCHANGED storeVars

\* the awaited sync task has ended
StopSyncAwaited ==
    /\ main.pc = "st_await_sync" /\ TaskDone(main.await)
    /\ main' = IF AwaitRaises(main.await)
               THEN [main EXCEPT !.pc = "crashed", !.await = NoTask]
               ELSE MainToClose(registered[main.idx])
    /\ UNCHANGED <<convVars, fwdVars>>
    /\ UNCHANGED <<impl, retryLog, registered, states, retry_tasks, tasks, client,
                   faults, startOk, pumpSeen>>
    /\ UNCHANGED storeVars

\* client.aclose() returns: self._client = None
StopCloseDone ==
    /\ main.pc = "st_await_close"
    /\ client' = [client EXCEPT ![registered[main.idx]] = FALSE]
    /\ main' = [main EXCEPT !.pc = "st_sync", !.idx = @ + 1]
    /\ UNCHANGED <<convVars, fwdVars>>
    /\ UNCHANGED <<impl, retryLog, registered, states, retry_tasks, tasks, faults, startOk,
                   pumpSeen>>
    /\ UNCHANGED storeVars

\* lifespan() yields to the server only after start_all() has returned:
\* SSE clients connect while the application serves requests
Serving == main.pc = "idle" /\ main.last = "start"

MgrNext ==
    \/ \E a \in Adapters : ~IsRegistered(a) /\ Add(a, 1)
    \/ StartAllCall
    \/ \E ok \in BOOLEAN : StartSnapshotDone(ok)
    \/ \E t \in TaskIds : RetryWake(t)
    \/ \E t \in TaskIds, ok \in BOOLEAN : RetrySnapshotDone(t, ok)
    \/ \E t \in TaskIds : TaskCancelled(t)
    \/ \E t \in TaskIds : PumpEvent(t)
    \/ \E t \in TaskIds : PumpStreamEnd(t)
    \/ \E t \in TaskIds : PumpStreamError(t)
    \/ \E t \in TaskIds : PumpWake(t)
    \/ \E t \in TaskIds, ok \in BOOLEAN : PumpReconnectDone(t, ok)
    \/ StopAllCall
    \/ StopRetryNext
    \/ StopRetryAwaited
    \/ StopSyncNext
    \/ StopSyncAwaited
    \/ StopCloseDone
    \/ (Serving /\ Subscribe("c1"))
    \/ (Serving /\ ConsumerStart("c1"))

Init == StoreInit /\ MgrInit /\ ConvInit /\ FwdInit

SpecManager == Init /\ [][MgrNext]_vars

\* ------------------------------------------------------- snapshot seeding
\* what callers of set / set_many write: a snapshot holds, for some of the
\* ids, the value the upstream reports
Seeds == {[id |-> i, value |-> MaxPublishes] : i \in Ids}

\* SignalStore.set as a function of the store state
SetResultNotifying(s, sigs, subs, qs, ds) ==
    [signals |-> StoreSet(sigs, s), subscribers |-> subs,
     queues |-> [c \in Consumers |->
                    IF c \in subs /\ ~QueueFull(qs[c], settings)
                    THEN Enqueue(qs[c], s) ELSE qs[c]],
     drops |-> ds]
SetResult(s, sigs, subs, qs, ds) ==
    [signals |-> StoreSet(sigs, s), subscribers |-> subs, queues |-> qs,
     drops |-> ds]

\* SignalStore.set_many as a function of the store state
SetManyResult(S, sigs, subs, qs, ds) ==
    [signals |-> StoreSetMany(sigs, S), subscribers |-> subs, queues |-> qs,
     drops |-> ds]

\* the store after a seeding call with result r
Seeded(r, op) ==
    /\ signals' = r.signals
    /\ subscribers' = r.subscribers
    /\ queues' = r.queues
    /\ drop_stats' = r.drops
    /\ lastOp' = [NoOp EXCEPT !.op = op, !.preQueues = queues,
                              !.preDrops = drop_stats,
                              !.preSubs = subscribers]
    /\ UNCHANGED <<settings, now, consumer, delivered, pubLog>>
    /\ UNCHANGED <<mgrVars, convVars, fwdVars>>

\* await store.set(s)
Set(s) ==
    Seeded(SetResult(s, signals, subscribers, queues, drop_stats), "set")

\* await store.set_many(S)
SetMany(S) ==
    Seeded(SetManyResult(S, signals, subscribers, queues, drop_stats),
           "set_many")

StoreNext ==
    \/ Tick
    \/ \E c \in Consumers : Subscribe(c)
    \/ \E c \in Consumers : ConsumerStart(c)
    \/ \E c \in Consumers : Dequeue(c)
    \/ \E c \in Consumers : ConsumerWait(c)
    \/ \E c \in Consumers : ConsumerClose(c)
    \/ \E c \in Consumers : ConsumerAbandon(c)
    \/ \E c \in Consumers : GeneratorFinalize(c)
    \/ \E p \in Publishers, s \in Signals : Publish(p, s)

\* one adapter under a long series of upstream failures: registration,
\* start_all, the retry tasks and the pump, without shutdown
BackoffNext ==
    \/ (~IsRegistered("a1") /\ Add("a1", 1))
    \/ StartAllCall
    \/ \E ok \in BOOLEAN : StartSnapshotDone(ok)
    \/ \E t \in TaskIds : RetryWake(t)
    \/ \E t \in TaskIds, ok \in BOOLEAN : RetrySnapshotDone(t, ok)
    \/ \E t \in TaskIds : PumpEvent(t)
    \/ \E t \in TaskIds : PumpStreamEnd(t)
    \/ \E t \in TaskIds : PumpStreamError(t)
    \/ \E t \in TaskIds : PumpWake(t)
    \/ \E t \in TaskIds, ok \in BOOLEAN : PumpReconnectDone(t, ok)

InitBackoff ==
    StoreInit /\ MgrInitWith(MaxBackoffFaults) /\ ConvInit /\ FwdInit

SpecBackoff == InitBackoff /\ [][BackoffNext]_vars

\* ------------------------------------------------- OpenHAB normalization
\* Python strings are strings; PyNone stands for None (JSON null) and
\* Missing for a key the record does not have.
PyNone == "<None>"
Missing == "<missing>"
UNDEFINED_VALUE == "UNDEF"
NULL_VALUE == "NULL"

\* Signal.value: str | int | float | bool | None, tagged with its type
Absent == [t |-> "none", v |-> ""]
StrVal(x) == [t |-> "str", v |-> x]
\* a Python object that is a str or None, as a value
PyVal(x) == IF x = PyNone THEN Absent ELSE StrVal(x)
\* str(value)
Str(val) == val.v
\* `not x` for a str or None
Falsy(x) == x = "" \/ x = PyNone

\* float(x) succeeds, for the strings of the model
IsNumeric(x) == x \in {"21.5678", "21.6", "22", "42", "42.0"}
\* float(x).is_integer()
IsWhole(x) == x \in {"22", "42", "42.0"}
\* str(int(float(x)))
IntText(x) == IF x = "42.0" THEN "42" ELSE x
\* str(float(x)) for a float that is not whole
FloatText(x) == x
\* "%d" % round(float(x))
FormatD(x) == CASE x = "21.5678" -> "22"
                [] x = "21.6" -> "22"
                [] x = "42.0" -> "42"
                [] OTHER -> x
\* "%.1f" % float(x)
FormatF(x) == CASE x = "21.5678" -> "21.6"
                [] x = "22" -> "22.0"
                [] x = "42" -> "42.0"
                [] OTHER -> x
\* state.endswith(unit) and state[:-len(unit)].rstrip()
EndsWith(state, unit) == state = "21.5678 W" /\ unit = "W"
StripUnit(state, unit) == "21.5678"

\* Signal(...) with __post_init__
NewSignal(id, value, display_value, unit, label, available, signal_type) ==
    [id |-> id, value |-> value,
     display_value |-> IF Falsy(display_value) /\ value # Absent
                       THEN Str(value) ELSE display_value,
     unit |-> unit, label |-> label, available |-> available,
     signal_type |-> signal_type]

\* a resolution that knows no implicit percentage types
ResolveSignalTypeNoPercent(base_type) ==
    CASE base_type = "Number" -> "number"
      [] base_type \in {"Switch", "Contact"} -> "boolean"
      [] base_type = "DateTime" -> "datetime"
      [] base_type = "Player" -> "enum"
      [] OTHER -> "string"

\* OpenHABAdapter._resolve_signal_type
ResolveSignalType(base_type) ==
    CASE base_type \in {"Number", "Dimmer", "Rollershutter"} -> "number"
      [] base_type \in {"Switch", "Contact"} -> "boolean"
      [] base_type = "DateTime" -> "datetime"
      [] base_type = "Player" -> "enum"
      [] OTHER -> "string"

\* OpenHABAdapter._coerce_value
CoerceValue(display, signal_type) ==
    CASE signal_type = "number" ->
            IF IsNumeric(display)
            THEN IF IsWhole(display)
                 THEN [t |-> "int", v |-> IntText(display)]
                 ELSE [t |-> "float", v |-> FloatText(display)]
            ELSE PyVal(display)
      [] signal_type = "boolean" ->
            [t |-> "bool",
             v |-> IF display \in {"ON", "OPEN"} THEN "True" ELSE "False"]
      [] OTHER -> PyVal(display)

\* units.extract_unit_from_pattern, for the patterns of the model
ExtractUnitFromPattern(pattern) ==
    CASE pattern = "%.1f W" -> [unit |-> "W", format |-> "%.1f"]
      [] pattern = "%d" -> [unit |-> "", format |-> "%d"]
      [] OTHER -> [unit |-> "", format |-> "%s"]

\* units.format_value; the result of a call that raises is Raises
Raises == "<raises>"
FormatValue(state, unit, format_str, is_quantity_type) ==
    IF state \in {UNDEFINED_VALUE, NULL_VALUE} THEN state
    ELSE IF unit = "" /\ format_str = "" THEN state
    ELSE IF state = PyNone THEN Raises
    ELSE LET value == IF is_quantity_type /\ unit # ""
                         /\ EndsWith(state, unit)
                      THEN StripUnit(state, unit) ELSE state
         IN  IF format_str = "%d" /\ IsNumeric(value) THEN FormatD(value)
             ELSE IF format_str = "%.1f" /\ IsNumeric(value)
             THEN FormatF(value)
             ELSE value

\* get_default_units("SI")
DefaultUnit(quantity_type) == IF quantity_type = "Power" THEN "W" ELSE ""

\* item "type" strings: base type and quantity type
BaseType(item_type) == IF item_type = "Number:Power" THEN "Number"
                       ELSE item_type
IsQuantityType(item_type) == item_type = "Number:Power"
QuantityOf(item_type) == "Power"

\* a cache entry that does not keep the label
ItemMetadataNoLabel(unit, format, isq, escu, label, signal_type) ==
    [unit |-> unit, format |-> format, is_quantity_type |-> isq,
     event_state_contains_unit |-> escu, label |-> "",
     signal_type |-> signal_type]

\* _ItemMetadata(...)
ItemMetadata(unit, format, isq, escu, label, signal_type) ==
    [unit |-> unit, format |-> format, is_quantity_type |-> isq,
     event_state_contains_unit |-> escu, label |-> label,
     signal_type |-> signal_type]
NoMetadata == ItemMetadata("", "", FALSE, FALSE, None, None)
NoEmitted == NewSignal(None, Absent, "", "", "", FALSE, None)

\* the item records GET /rest/items may return
ItemTypes == {"Number", "Number:Power", "Switch", "String", "DateTime",
              "Dimmer", "Rollershutter"}
ItemStates == {UNDEFINED_VALUE, NULL_VALUE, "", PyNone, Missing, "ON",
               "text", "21.5678", "21.5678 W", "42"}
ItemPatterns == {Missing, "%.1f W", "%d", "%s"}
Transformed == {Missing, "", PyNone, "text"}
Items == [name : {"Item"}, type : ItemTypes, state : ItemStates,
          transformedState : Transformed, pattern : ItemPatterns]

\* OpenHABAdapter._extract_signal: the signal and the metadata, or raised
ExtractSignal(item) ==
    LET name == item.name
        label == name
        state == IF item.state = Missing THEN "" ELSE item.state
        base_type == BaseType(item.type)
        isq == IsQuantityType(item.type)
        signal_type == ResolveSignalType(base_type)
        unavailable == state \in {UNDEFINED_VALUE, NULL_VALUE}
        Row(display_value, typed_value, unit, st, meta) ==
            IF display_value = Raises
            THEN [raised |-> TRUE, signal |-> NoEmitted,
                  metadata |-> NoMetadata]
            ELSE [raised |-> FALSE,
                  signal |-> NewSignal("oh:" \o name,
                                       IF unavailable THEN Absent
                                                      ELSE typed_value,
                                       IF unavailable THEN ""
                                                      ELSE display_value,
                                       unit, label, ~unavailable, st),
                  metadata |-> meta]
    IN  IF item.transformedState # Missing
        THEN Row(item.transformedState, PyVal(item.transformedState), "",
                 "string",
                 ItemMetadata("", "%s", FALSE, FALSE, label, "string"))
        ELSE IF base_type = "DateTime"
        THEN Row(state, PyVal(state), "", signal_type,
                 ItemMetadata("", "%s", FALSE, FALSE, label, "datetime"))
        ELSE IF item.pattern # Missing
        THEN LET p == ExtractUnitFromPattern(item.pattern)
                 d == IF unavailable THEN ""
                      ELSE FormatValue(state, p.unit, p.format, isq)
             IN  Row(d, CoerceValue(d, signal_type), p.unit, signal_type,
                     ItemMetadata(p.unit, p.format, isq, TRUE, label,
                                  signal_type))
        ELSE IF isq
        THEN LET unit == DefaultUnit(QuantityOf(item.type))
                 d == IF unavailable THEN ""
                      ELSE FormatValue(state, unit, "%s", TRUE)
             IN  Row(d, CoerceValue(d, signal_type), unit, signal_type,
                     ItemMetadata(unit, "%s", TRUE, TRUE, label,
                                  signal_type))
        ELSE IF base_type \in {"Rollershutter", "Dimmer"}
        THEN Row(state, CoerceValue(state, "number"), "%", signal_type,
                 ItemMetadata("%", "%d", FALSE, FALSE, label, "number"))
        ELSE Row(state, CoerceValue(state, signal_type), "", signal_type,
                 ItemMetadata("", "%s", FALSE, FALSE, label, signal_type))

\* the metadata cached by get_signals for the items of the model
CachedMetadata ==
    {ExtractSignal(item).metadata :
        item \in {i \in Items : ~ExtractSignal(i).raised}}

\* event payloads of /rest/events/states
Payloads == [state : ItemStates, displayState : Transformed]

\* ftfy.fix_encoding: the identity on the strings of the model, raises
\* for None
FixEncoding(x) == IF x = PyNone THEN Raises ELSE x

\* OpenHABAdapter._process_event with the cached metadata found: the
\* signal, or none when the processing raised
ProcessEvent(metadata, payload) ==
    LET raw_state == IF payload.state = Missing THEN "" ELSE payload.state
        unavailable == raw_state \in {PyNone, UNDEFINED_VALUE, NULL_VALUE}
        display_value ==
            IF metadata.event_state_contains_unit
            THEN FormatValue(FixEncoding(raw_state), metadata.unit,
                             metadata.format, metadata.is_quantity_type)
            ELSE IF payload.displayState # Missing
            THEN FixEncoding(payload.displayState)
            ELSE FixEncoding(raw_state)
    IN  IF unavailable
        THEN [raised |-> FALSE,
              signal |-> NewSignal("oh:Item", Absent, "", metadata.unit,
                                   metadata.label, FALSE,
                                   metadata.signal_type)]
        ELSE IF display_value = Raises
        THEN [raised |-> TRUE, signal |-> NoEmitted]
        ELSE [raised |-> FALSE,
              signal |-> NewSignal("oh:Item",
                                   CoerceValue(display_value,
                                               metadata.signal_type),
                                   display_value, metadata.unit,
                                   metadata.label, TRUE,
                                   metadata.signal_type)]

\* a conversion call on the input drawn for this behaviour: the input and
\* the outcome are recorded
Converted(fn, arg, out) ==
    /\ given.fn = None
    /\ given' = [fn |-> fn, arg |-> arg]
    /\ result' = [fn |-> fn, out |-> out]
    /\ UNCHANGED <<storeVars, mgrVars, fwdVars>>

\* get_signals converts one item of the upstream's answer
ExtractSignalCall(item) ==
    Converted("_extract_signal", item, ExtractSignal(item))

\* subscribe_events converts one state event of a tracked item
ProcessEventCall(metadata, payload) ==
    Converted("_process_event", [metadata |-> metadata, payload |-> payload],
              ProcessEvent(metadata, payload))

\* ------------------------------------------------- Signal serialization
SignalTypes == {"string", "number", "boolean", "enum", "datetime"}

\* Signal.to_dict: the mapping, with the set of keys it has
ToDictLegacy(s) ==
    [keys |-> {"id", "value", "unit", "label"},
     id |-> s.id, value |-> s.value, display_value |-> "",
     unit |-> s.unit, label |-> s.label, available |-> FALSE,
     signal_type |-> ""]
ToDict(s) ==
    [keys |-> {"id", "value", "display_value", "unit", "label",
               "available", "signal_type"},
     id |-> s.id, value |-> s.value, display_value |-> s.display_value,
     unit |-> s.unit, label |-> s.label, available |-> s.available,
     signal_type |-> s.signal_type]

\* Signal.from_dict for a mapping that has the keys id and value
FromDict(data) ==
    LET Has(k) == k \in data.keys
        value == IF data.value.t = "str"
                    /\ data.value.v \in {UNDEFINED_VALUE, NULL_VALUE}
                 THEN Absent ELSE data.value
        signal_type == IF Has("signal_type") THEN data.signal_type
                       ELSE "string"
        available == IF Has("available") THEN data.available
                     ELSE value # Absent
        display_value == IF Has("display_value") THEN data.display_value
                         ELSE IF value # Absent THEN Str(value) ELSE ""
    IN  NewSignal(data.id, value, display_value,
                  IF Has("unit") THEN data.unit ELSE "",
                  IF Has("label") THEN data.label ELSE "",
                  available, signal_type)

\* the invariants of a Signal: available, a value and a display string go
\* together, a NUMBER holds a number and a BOOLEAN a bool
WellFormed(s) ==
    /\ (~s.available) <=> (s.value = Absent)
    /\ (s.value = Absent) <=> (s.display_value = "")
    /\ (s.signal_type = "number" /\ s.available) =>
           s.value.t \in {"int", "float"}
    /\ (s.signal_type = "boolean" /\ s.available) => s.value.t = "bool"

\* the value variants: string, integer, floating, boolean, absent
ValueVariants ==
    {StrVal("Eco 40"), StrVal(UNDEFINED_VALUE), StrVal(NULL_VALUE),
     [t |-> "int", v |-> "1250"], [t |-> "float", v |-> "21.5"],
     [t |-> "bool", v |-> "True"], [t |-> "bool", v |-> "False"], Absent}
WellFormedSignals ==
    {s \in {NewSignal("sig", v, d, u, "Label", av, ty) :
               v \in ValueVariants, d \in {"", "An"}, u \in {"", "W"},
               av \in BOOLEAN, ty \in SignalTypes} : WellFormed(s)}

\* Signal.from_dict(s.to_dict())
RoundTripCall(s) == Converted("round_trip", s, FromDict(ToDict(s)))

\* ------------------------------------------------- OpenHAB event stream
\* the longest stream of lines of one subscribe_events run
MaxLines == 3

\* self._item_metadata after get_signals has tracked a Switch and a
\* Number:Power item: raw item name -> _ItemMetadata
item_metadata ==
    [name \in {"Item", "Lamp"} |->
        ExtractSignal(
            IF name = "Item"
            THEN [name |-> name, type |-> "Switch", state |-> "ON",
                  transformedState |-> Missing, pattern |-> Missing]
            ELSE [name |-> name, type |-> "Number:Power",
                  state |-> "21.5678 W", transformedState |-> Missing,
                  pattern |-> Missing]).metadata]

\* the texts a data line may hold: JSON objects, other JSON values, and
\* texts that are not JSON; the quotes of the JSON texts are left out of
\* the strings of the model
Texts == {"{Item: {state: ON}}",
          "{Item: {state: ON}, Lamp: {state: 21.5678 W}}",
          "{Item: {state: ON, displayState: null}, Lamp: {state: 42}}",
          "{Item: ON, Lamp: {state: 42}}",
          "{Ghost: {state: ON}, Item: {state: UNDEF}}",
          "[]", "42",
          "{malformed json}", "conn-789", ""}

\* json.loads(data): the entries of an object in their order (the payload
\* of an entry is a mapping with the keys it has, or some other JSON
\* value), another JSON value, or JSONDecodeError
JsonLoads(data) ==
    LET Entry(name, state, displayState) ==
            [name |-> name, mapping |-> TRUE,
             payload |-> [state |-> state, displayState |-> displayState]]
        Scalar(name) ==
            [name |-> name, mapping |-> FALSE,
             payload |-> [state |-> Missing, displayState |-> Missing]]
        JsonObject(entries) ==
            [ok |-> TRUE, object |-> TRUE, entries |-> entries]
    IN  CASE data = "{Item: {state: ON}}" ->
                JsonObject(<<Entry("Item", "ON", Missing)>>)
          [] data = "{Item: {state: ON}, Lamp: {state: 21.5678 W}}" ->
                JsonObject(<<Entry("Item", "ON", Missing),
                             Entry("Lamp", "21.5678 W", Missing)>>)
          [] data = "{Item: {state: ON, displayState: null}, Lamp: {state: 42}}" ->
                JsonObject(<<Entry("Item", "ON", PyNone),
                             Entry("Lamp", "42", Missing)>>)
          [] data = "{Item: ON, Lamp: {state: 42}}" ->
                JsonObject(<<Scalar("Item"), Entry("Lamp", "42", Missing)>>)
          [] data = "{Ghost: {state: ON}, Item: {state: UNDEF}}" ->
                JsonObject(<<Entry("Ghost", "ON", Missing),
                             Entry("Item", UNDEFINED_VALUE, Missing)>>)
          [] data \in {"[]", "42"} ->
                [ok |-> TRUE, object |-> FALSE, entries |-> <<>>]
          [] OTHER -> [ok |-> FALSE, object |-> FALSE, entries |-> <<>>]

\* a line of the response: its first five characters and the rest
DataLine(text) == [head |-> "data:", tail |-> " " \o text]
\* the streams of lines the upstream may send before it closes the stream
LineSeqs ==
    LET Lines == {DataLine(text) : text \in Texts}
                     \cup {[head |-> "event", tail |-> ": message"]}
    IN  UNION {[1..n -> Lines] : n \in 0..MaxLines}

\* the loop of _parse_sse_events over the entries of the mapping, with
\* _process_event for each: no signal when the item is unknown or the
\* processing raised
RECURSIVE ParseEntries(_, _)
ParseEntries(metadata, entries) ==
    IF entries = <<>> THEN <<>>
    ELSE LET entry == Head(entries)
             done == ProcessEvent(metadata[entry.name], entry.payload)
         IN  (IF entry.name \notin DOMAIN metadata THEN <<>>
              ELSE IF ~entry.mapping THEN <<>>
              ELSE IF done.raised THEN <<>>
              ELSE <<[done.signal EXCEPT !.id = "oh:" \o entry.name]>>)
                 \o ParseEntries(metadata, Tail(entries))

\* OpenHABAdapter._parse_sse_events: the signals it yields, and whether
\* it raised
ParseSseEvents(metadata, data) ==
    LET event_data == JsonLoads(data)
    IN  IF ~event_data.ok THEN [raised |-> FALSE, signals |-> <<>>]
        ELSE IF ~event_data.object
        THEN [raised |-> TRUE, signals |-> <<>>]
        ELSE [raised |-> FALSE,
              signals |-> ParseEntries(metadata, event_data.entries)]

\* the loop of subscribe_events over response.aiter_lines() from the
\* given connection id on; the trace holds what the run does, in order:
\* the subscribe POST, the texts given to json.loads, the signals yielded
RECURSIVE StreamLines(_, _, _, _)
StreamLines(metadata, lines, connection_id, trace) ==
    IF lines = <<>> THEN [raised |-> FALSE, trace |-> trace]
    ELSE LET line == Head(lines)
             \* line[5:].strip()
             data == IF \E text \in Texts : line.tail = " " \o text
                     THEN CHOOSE text \in Texts : line.tail = " " \o text
                     ELSE line.tail
             parsed == ParseSseEvents(metadata, data)
             Posted == [op |-> "POST",
                        arg |-> "/rest/events/states/" \o data,
                        names |-> DOMAIN metadata, signal |-> NoEmitted]
             Loaded == [op |-> "json.loads", arg |-> data, names |-> {},
                        signal |-> NoEmitted]
             Yielded(signal) == [op |-> "yield", arg |-> "", names |-> {},
                                 signal |-> signal]
             after == Append(trace, Loaded)
                          \o [i \in 1..Len(parsed.signals) |->
                                 Yielded(parsed.signals[i])]
         IN  IF line.head # "data:"
             THEN StreamLines(metadata, Tail(lines), connection_id, trace)
             ELSE IF connection_id = PyNone
             THEN StreamLines(metadata, Tail(lines), data,
                              Append(trace, Posted))
             ELSE IF parsed.raised
             THEN [raised |-> TRUE, trace |-> after]
             ELSE StreamLines(metadata, Tail(lines), connection_id, after)

\* the pump consumes one run of OpenHABAdapter.subscribe_events to its
\* end, on a stream of lines that the upstream closes
SubscribeEventsCall(lines) ==
    Converted("subscribe_events", lines,
              StreamLines(item_metadata, lines, PyNone, <<>>))

\* the display strings and signal types _coerce_value is called with
DisplayStrings == {"ON", "OPEN", "OFF", "CLOSED", "on", "text", "", "42",
                   "21.6"}
\* _extract_signal and _process_event coerce a display string
CoerceValueCall(display, signal_type) ==
    Converted("_coerce_value",
              [display |-> display, signal_type |-> signal_type],
              CoerceValue(display, signal_type))

\* the conversions applied to every input of the model
ConvertNext ==
    \/ \E item \in Items : ExtractSignalCall(item)
    \/ \E metadata \in CachedMetadata, payload \in Payloads :
          ProcessEventCall(metadata, payload)
    \/ \E s \in WellFormedSignals : RoundTripCall(s)
    \/ \E lines \in LineSeqs : SubscribeEventsCall(lines)
    \/ \E display \in DisplayStrings, signal_type \in SignalTypes :
          CoerceValueCall(display, signal_type)

\* every conversion has inputs to draw from
InputsExist ==
    /\ Cardinality(Items) > 0
    /\ Cardinality(CachedMetadata) > 0
    /\ Cardinality(Payloads) > 0
    /\ Cardinality(WellFormedSignals) > 0
    /\ Cardinality(LineSeqs) > 0
    /\ Cardinality(DisplayStrings) > 0

InitConvert ==
    /\ InputsExist
    /\ StoreInitWith({RealSettings})
    /\ MgrInit
    /\ ConvInit /\ FwdInit
    /\ impl = "adapters.manager"

SpecConvert == InitConvert /\ [][ConvertNext]_vars

\* ------------------------------------------------------------ GET /health
RECURSIVE AdapterStatuses(_, _)
\* `for state in adapter_manager.states.values()`: one AdapterStatus each
AdapterStatuses(regs, st) ==
    IF regs = <<>> THEN <<>>
    ELSE <<[name |-> Head(regs), connected |-> st[Head(regs)].connected]>>
         \o AdapterStatuses(Tail(regs), st)

\* len(await store.get_all())
SignalCount(sigs) == Cardinality({i \in Ids : sigs[i] # NoValue})

\* health_check: mgr says whether app.state has an adapter_manager
HealthResponseAnyAdapters(sigs, mgr, regs, st, subs) ==
    LET adapter_statuses == IF mgr THEN AdapterStatuses(regs, st) ELSE <<>>
        all_connected == \A i \in DOMAIN adapter_statuses :
                             adapter_statuses[i].connected
        is_healthy == SignalCount(sigs) > 0 /\ all_connected
    IN  [status |-> IF is_healthy THEN "healthy" ELSE "degraded",
         signal_count |-> SignalCount(sigs),
         subscriber_count |-> Cardinality(subs),
         adapters |-> adapter_statuses]
HealthResponse(sigs, mgr, regs, st, subs) ==
    LET adapter_statuses == IF mgr THEN AdapterStatuses(regs, st) ELSE <<>>
        all_connected == \A i \in DOMAIN adapter_statuses :
                             adapter_statuses[i].connected
        has_adapters == Len(adapter_statuses) > 0
        is_healthy == SignalCount(sigs) > 0 /\ has_adapters /\ all_connected
    IN  [status |-> IF is_healthy THEN "healthy" ELSE "degraded",
         signal_count |-> SignalCount(sigs),
         subscriber_count |-> Cardinality(subs),
         adapters |-> adapter_statuses]

\* a GET /health request is answered
HealthCheck(mgr) ==
    /\ lastOp' = [NoOp EXCEPT
                     !.op = "health", !.manager = mgr,
                     !.response = HealthResponse(signals, mgr, registered,
                                                 states, subscribers)]
    /\ UNCHANGED <<settings, signals, subscribers, queues, drop_stats, now,
                   consumer, delivered, pubLog>>
    /\ UNCHANGED <<mgrVars, convVars, fwdVars>>

\* the application answering health requests while its adapters start,
\* fail, retry and reconnect; a test application has no adapter manager
HealthNext ==
    \/ \E a \in Adapters : ~IsRegistered(a) /\ Add(a, 1)
    \/ StartAllCall
    \/ \E ok \in BOOLEAN : StartSnapshotDone(ok)
    \/ \E t \in TaskIds : RetryWake(t)
    \/ \E t \in TaskIds, ok \in BOOLEAN : RetrySnapshotDone(t, ok)
    \/ \E t \in TaskIds : PumpStreamEnd(t)
    \/ \E t \in TaskIds : PumpStreamError(t)
    \/ \E t \in TaskIds : PumpWake(t)
    \/ \E t \in TaskIds, ok \in BOOLEAN : PumpReconnectDone(t, ok)
    \/ \E mgr \in BOOLEAN : HealthCheck(mgr)

SpecHealth == Init /\ [][HealthNext]_vars

\* a caller of the manager that calls start_all() again (the class does not
\* forbid it), with the retries, reconnect cycles and stop_all of one adapter
RestartNext ==
    \/ (~IsRegistered("a1") /\ Add("a1", 1))
    \/ StartAllCallUpTo(MaxStartCalls)
    \/ \E ok \in BOOLEAN : StartSnapshotDone(ok)
    \/ \E t \in TaskIds : RetryWake(t)
    \/ \E t \in TaskIds, ok \in BOOLEAN : RetrySnapshotDone(t, ok)
    \/ \E t \in TaskIds : TaskCancelled(t)
    \/ \E t \in TaskIds : PumpStreamError(t)
    \/ \E t \in TaskIds : PumpWake(t)
    \/ \E t \in TaskIds, ok \in BOOLEAN : PumpReconnectDone(t, ok)
    \/ StopAllCall
    \/ StopRetryNext
    \/ StopRetryAwaited
    \/ StopSyncNext
    \/ StopSyncAwaited
    \/ StopCloseDone

SpecRestart == Init /\ [][RestartNext]_vars

\* the pumps forwarding a numbered event stream through failures of the
\* stream, reconnects and a shutdown, with an SSE client attached
ForwardNext ==
    \/ \E a \in Adapters : ~IsRegistered(a) /\ Add(a, 1)
    \/ StartAllCall
    \/ \E ok \in BOOLEAN : StartSnapshotDone(ok)
    \/ \E t \in TaskIds : RetryWake(t)
    \/ \E t \in TaskIds, ok \in BOOLEAN : RetrySnapshotDone(t, ok)
    \/ \E t \in TaskIds : PumpForward(t)
    \/ \E t \in TaskIds : PumpStreamEnd(t)
    \/ \E t \in TaskIds : PumpStreamError(t)
    \/ \E t \in TaskIds : PumpWake(t)
    \/ \E t \in TaskIds, ok \in BOOLEAN : PumpReconnectDone(t, ok)
    \/ (Serving /\ Subscribe("c1"))
    \/ (Serving /\ ConsumerStart("c1"))

SpecForward == Init /\ [][ForwardNext]_vars

\* a configuration that may name an adapter twice, then startup and the
\* adapters' retries and pumps
RegisterNext ==
    \/ \E a \in Adapters, inst \in Instances : Add(a, inst)
    \/ StartAllCall
    \/ \E ok \in BOOLEAN : StartSnapshotDone(ok)
    \/ \E t \in TaskIds : RetryWake(t)
    \/ \E t \in TaskIds, ok \in BOOLEAN : RetrySnapshotDone(t, ok)
    \/ \E t \in TaskIds : PumpEvent(t)
    \/ \E t \in TaskIds : PumpStreamEnd(t)
    \/ \E t \in TaskIds : PumpWake(t)
    \/ \E t \in TaskIds, ok \in BOOLEAN : PumpReconnectDone(t, ok)

SpecRegister == Init /\ [][RegisterNext]_vars

InitStore ==
    /\ StoreInitWith(QueueSizeChoices)
    /\ MgrInit
    /\ ConvInit /\ FwdInit
    /\ impl = "adapters.manager"

\* the store written by set / set_many between publishes, with subscribers
\* that register and consume but never leave
SeedNext ==
    \/ \E s \in Seeds : Set(s)
    \/ \E S \in SUBSET Seeds : SetMany(S)
    \/ \E c \in Consumers : Subscribe(c)
    \/ \E c \in Consumers : ConsumerStart(c)
    \/ \E c \in Consumers : Dequeue(c)
    \/ \E c \in Consumers : ConsumerWait(c)
    \/ \E p \in Publishers, s \in Signals : Publish(p, s)

SpecSeed == InitStore /\ [][SeedNext]_vars

SpecStore == InitStore /\ [][StoreNext]_vars

\* the store with a running event loop: the loop runs the aclose() it has
\* scheduled for an abandoned generator
SpecSse ==
    /\ InitStore
    /\ [][StoreNext]_vars
    /\ \A c \in Consumers : WF_vars(GeneratorFinalize(c))

\* ------------------------------------------------------ claims on the store
WasFull(c) == Len(lastOp.preQueues[c]) >= settings.subscriber_queue_size

\* C1: slow-subscriber isolation.  After every publish(s), for registered
\* subscribers A and B with A's queue full and B's not, B holds s at the
\* tail of its previous queue and has no drop record, and A's queue is
\* unchanged, whatever the iteration order of the fan-out.
C1_Isolation ==
    lastOp.op = "publish" =>
        \A a \in lastOp.preSubs, b \in lastOp.preSubs :
            (a # b /\ WasFull(a) /\ ~WasFull(b)) =>
                /\ queues[b] = Append(lastOp.preQueues[b], lastOp.sig)
                /\ drop_stats[b] = NoDrop
                /\ queues[a] = lastOp.preQueues[a]

\* C2: publish never raises to its caller, and an overflow is accounted in
\* drop_stats.
C2_PublishNeverRaises ==
    lastOp.op = "publish" =>
        /\ ~lastOp.raised
        /\ \A c \in lastOp.preSubs : WasFull(c) => drop_stats[c] # NoDrop

\* C3: publish never waits for a subscriber to dequeue.  In every state,
\* whatever the queues hold, the next publish call can run to completion
\* as one step, and that step visits each subscriber of the snapshot once
\* (no queue grows by more than one signal).
C3_PublishNonBlocking ==
    /\ \A s \in Signals :
          (Len(pubLog) < MaxPublishes /\ s.value = Len(pubLog) + 1) =>
              ENABLED Publish("p1", s)
    /\ lastOp.op = "publish" =>
          /\ Len(lastOp.order) = Cardinality(lastOp.preSubs)
          /\ \A c \in Consumers :
                Len(queues[c]) <= Len(lastOp.preQueues[c]) + 1

\* a publish completed although every subscriber queue was full and no
\* consumer dequeued
C3_Witness ==
    /\ lastOp.op = "publish"
    /\ lastOp.preSubs = Consumers
    /\ \A c \in Consumers : WasFull(c) /\ queues[c] = lastOp.preQueues[c]

\* C4: bounded fan-out.  publish(s) appends s once to the tail of every
\* registered queue that has room, and for every full queue enqueues
\* nothing and accounts a drop; no queue ever holds more than
\* subscriber_queue_size signals.
C4_BoundedFanOut ==
    /\ \A c \in Consumers : Len(queues[c]) <= settings.subscriber_queue_size
    /\ lastOp.op = "publish" =>
          \A c \in lastOp.preSubs :
              IF WasFull(c)
              THEN queues[c] = lastOp.preQueues[c] /\ drop_stats[c] # NoDrop
              ELSE queues[c] = Append(lastOp.preQueues[c], lastOp.sig)

\* C5: per-id ordering.  What a subscriber has dequeued is a subsequence of
\* the sequence of publish calls: every dequeued signal was published, none
\* is dequeued twice and none overtakes an earlier one (so the values of
\* one id arrive in publish order).
C5_PerIdOrdering ==
    \A c \in Consumers :
        /\ \A k \in 1..Len(delivered[c]) :
              /\ delivered[c][k].value \in 1..Len(pubLog)
              /\ pubLog[delivered[c][k].value] = delivered[c][k]
        /\ \A j \in 1..Len(delivered[c]), k \in 1..Len(delivered[c]) :
              j < k => delivered[c][j].value < delivered[c][k].value

\* a subscriber has dequeued two values of one id while the other publisher
\* published in between
C5_Witness ==
    \E c \in Consumers :
        \E j \in 1..Len(delivered[c]), k \in 1..Len(delivered[c]) :
            /\ j < k
            /\ delivered[c][j].id = delivered[c][k].id
            /\ delivered[c][k].value > delivered[c][j].value + 1

\* C6: immediately after publish(s), store.get(s.id) = s, whether the
\* fan-out completed or not.
C6_PublishStores ==
    lastOp.op = "publish" => signals[lastOp.sig.id] = lastOp.sig.value

\* a publish whose fan-out raised and whose signal is in the store
C6_Witness ==
    /\ lastOp.op = "publish"
    /\ lastOp.raised
    /\ signals[lastOp.sig.id] = lastOp.sig.value

\* ---------------------------------------------------- claims on the manager
StopAllReturned == main.pc = "idle" /\ main.last = "stop"
PumpOf(a) == states[a].sync_task
HasLivePump(a) == PumpOf(a) # NoTask /\ Alive(PumpOf(a))

\* C7: after stop_all() has returned no pump task and no retry task of the
\* manager is running, none is created afterwards and no adapter client is
\* open again, for every interleaving of stop_all with the manager's tasks.
C7_StopAllQuiesces ==
    StopAllReturned =>
        /\ \A t \in TaskIds : ~Alive(t)
        /\ \A a \in Adapters : ~client[a]

\* C8: reconnect after stream end.  When the event iteration of a running
\* pump ends normally the adapter is marked connected = false with
\* last_error set and the pump goes to its backoff sleep; after the sleep
\* it calls snapshot() again; a successful snapshot is written to the store
\* with set_many, sets connected = true, last_error = absent and
\* retry_delay = INITIAL, and the pump iterates subscribe_events again.
C8_ReconnectAfterStreamEnd ==
    [][\A t \in TaskIds :
         /\ PumpStreamEnd(t) =>
              /\ states'[tasks[t].name].connected = FALSE
              /\ states'[tasks[t].name].error # None
              /\ tasks'[t].pc = "sleep"
         /\ PumpWake(t) => tasks'[t].pc = "snapshot"
         /\ PumpReconnectDone(t, TRUE) =>
              /\ signals' = StoreSetMany(signals,
                                         SnapshotSignals(tasks[t].name))
              /\ states'[tasks[t].name].connected = TRUE
              /\ states'[tasks[t].name].error = None
              /\ states'[tasks[t].name].retry_delay = INITIAL_RETRY_DELAY
              /\ tasks'[t].pc = "events"]_vars

StartedOk(a) ==
    /\ states[a].connected = TRUE
    /\ states[a].error = None
    /\ states[a].retry_delay = INITIAL_RETRY_DELAY
    /\ signals[IdOf(a)] # NoValue
    /\ HasLivePump(a)
StartAllReturns == main.pc = "sa_snapshot" /\ main'.pc = "idle"

\* C9 as stated: when start_all() returns, every registered adapter has had
\* a start attempt and every adapter whose snapshot succeeded has
\* connected = true, last_error = absent, retry_delay = INITIAL, its
\* snapshot signals in the store and a running pump task, whatever happened
\* to the other adapters.
C9_StartAllIndependent ==
    [][StartAllReturns =>
         /\ \A i \in DOMAIN registered : client'[registered[i]]
         /\ \A a \in startOk' : StartedOk(a)']_vars

\* C9 amended: every adapter whose snapshot succeeds has, when its own
\* start attempt completes, connected = true, last_error = absent,
\* retry_delay = INITIAL, its snapshot in the store and a running pump task;
\* when start_all() returns every registered adapter has had a start
\* attempt, and every adapter whose snapshot succeeded still has its
\* signals in the store and a running pump task, and still has the three
\* state fields unless its own event stream has ended or failed meanwhile.
C9_StartAllIndependentAmended ==
    [][/\ \A a \in Adapters :
            (/\ main.pc = "sa_snapshot"
             /\ a = registered[main.idx]
             /\ StartSnapshotDone(TRUE)) => StartedOk(a)'
       /\ StartAllReturns =>
            /\ \A i \in DOMAIN registered : client'[registered[i]]
            /\ \A a \in startOk' :
                 /\ signals'[IdOf(a)] # NoValue
                 /\ HasLivePump(a)'
                 /\ pumpSeen'[a] = "ok" =>
                      /\ states'[a].connected = TRUE
                      /\ states'[a].error = None
                      /\ states'[a].retry_delay = INITIAL_RETRY_DELAY]_vars

\* start_all() has returned with the first registered adapter refused and
\* the second one started
C9_Witness ==
    /\ main.pc = "idle" /\ main.last = "start"
    /\ Len(registered) = 2
    /\ registered[1] \notin startOk
    /\ states[registered[1]].connected = FALSE
    /\ registered[2] \in startOk
    /\ StartedOk(registered[2])

\* an adapter whose start attempts have only failed so far
Failing(a) ==
    /\ IsRegistered(a)
    /\ states[a].connected = FALSE
    /\ states[a].error = "ConnectionError"
    /\ PumpOf(a) = NoTask
RetryPending(a) ==
    \E i \in DOMAIN retry_tasks :
        /\ retry_tasks[i].name = a
        /\ Alive(retry_tasks[i].task)
        /\ tasks[retry_tasks[i].task].kind = "retry"
        /\ tasks[retry_tasks[i].task].pc = "sleep"
RetryInProgress(a) ==
    \E t \in TaskIds :
        tasks[t].kind = "retry" /\ tasks[t].name = a /\ tasks[t].pc = "snapshot"
AttemptFails(a) ==
    \/ main.pc = "sa_snapshot" /\ a = registered[main.idx]
       /\ StartSnapshotDone(FALSE)
    \/ \E t \in TaskIds : tasks[t].name = a /\ RetrySnapshotDone(t, FALSE)
SyncTasks == {t \in TaskIds : tasks[t].kind = "sync"}

\* C10: a failed start attempt leaves connected = false and last_error = the
\* cause, creates no pump task and leaves a retry pending; the retry, when
\* its sleep elapses, invokes the start attempt again; until stop_all() is
\* called an adapter whose attempts have all failed always has a retry
\* pending or in progress; a retry whose attempt succeeds leaves the adapter
\* connected with a running pump.
C10_FailedStartRetries ==
    /\ [](\A a \in Adapters :
            (main.stops = 0 /\ Failing(a)) =>
                (RetryPending(a) \/ RetryInProgress(a)
                 \/ (main.pc = "sa_snapshot" /\ registered[main.idx] = a)))
    /\ [][/\ \A a \in Adapters :
               AttemptFails(a) =>
                   /\ states'[a].connected = FALSE
                   /\ states'[a].error = "ConnectionError"
                   /\ states'[a].sync_task = states[a].sync_task
                   /\ SyncTasks' = SyncTasks
                   /\ RetryPending(a)'
          /\ \A t \in TaskIds :
               /\ RetryWake(t) => tasks'[t].pc = "snapshot"
               /\ \A a \in Adapters :
                    (tasks[t].name = a /\ RetrySnapshotDone(t, TRUE)) =>
                        /\ states'[a].connected = TRUE
                        /\ HasLivePump(a)']_vars

\* an adapter was refused at start and again by its first retry, and the
\* second retry is pending with the advanced delay
C10_Witness ==
    \E a \in Adapters :
        /\ Failing(a)
        /\ states[a].retry_delay = INITIAL_RETRY_DELAY * RETRY_BACKOFF_FACTOR
        /\ RetryPending(a)
        /\ main.stops = 0

\* ------------------------------------------------- claims on the backoff
RECURSIVE Pow(_, _)
Pow(b, n) == IF n = 0 THEN 1 ELSE b * Pow(b, n - 1)
\* min(INITIAL * BACKOFF^(k-1), MAX)
SleepOf(k) ==
    Min(INITIAL_RETRY_DELAY * Pow(RETRY_BACKOFF_FACTOR, k - 1), MAX_RETRY_DELAY)
\* a task of adapter a is in its backoff sleep, which lasts the retry_delay
\* the state holds
Sleeping(a) ==
    \E t \in TaskIds : Alive(t) /\ tasks[t].name = a /\ tasks[t].pc = "sleep"
DelayInRange ==
    \A a \in Adapters :
        /\ INITIAL_RETRY_DELAY <= states[a].retry_delay
        /\ states[a].retry_delay <= MAX_RETRY_DELAY

Recorded(t, cause) ==
    /\ states'[tasks[t].name].connected = FALSE
    /\ states'[tasks[t].name].error = cause
PumpSurvives ==
    \A t \in TaskIds :
        (tasks[t].kind = "sync" /\ TaskDone(t)) =>
            (tasks[t].pc = "cancelled" /\ tasks[t].cancel)

\* C12 as stated: an exception raised in the pump by the event iteration,
\* by store.publish or by the reconnect snapshot never ends the pump task,
\* which ends only by cancellation; in each of the three cases the pump
\* records connected = false with the cause of that exception.
C12_PumpSurvivesExceptions ==
    /\ []PumpSurvives
    /\ [][\A t \in TaskIds :
            /\ PumpStreamError(t) =>
                 (Recorded(t, "StreamError") /\ tasks'[t].pc = "sleep")
            /\ (PumpEvent(t) /\ lastOp'.raised) =>
                 (Recorded(t, "AttributeError") /\ tasks'[t].pc = "sleep")
            /\ PumpReconnectDone(t, FALSE) =>
                 (Recorded(t, "ConnectionError") /\ Alive(t)')]_vars

\* C12 amended: an exception raised in the pump never ends the pump task,
\* which ends only by cancellation.  An exception of the event iteration
\* or of store.publish makes the pump record connected = false with the
\* cause and go to the backoff sleep; an exception of the reconnect
\* snapshot is only logged: the adapter state stays as it was (connected =
\* false, last_error the earlier cause) and the pump continues its outer
\* loop with subscribe_events.
C12_PumpSurvivesExceptionsAmended ==
    /\ []PumpSurvives
    /\ [][\A t \in TaskIds :
            /\ PumpStreamError(t) =>
                 (Recorded(t, "StreamError") /\ tasks'[t].pc = "sleep")
            /\ (PumpEvent(t) /\ lastOp'.raised) =>
                 (Recorded(t, "AttributeError") /\ tasks'[t].pc = "sleep")
            /\ PumpReconnectDone(t, FALSE) =>
                 /\ states'[tasks[t].name] = states[tasks[t].name]
                 /\ states'[tasks[t].name].connected = FALSE
                 /\ states'[tasks[t].name].error # "ConnectionError"
                 /\ tasks'[t].pc = "events"]_vars

\* a pump is iterating subscribe_events again after its reconnect snapshot
\* has failed
C12_Witness ==
    \E a \in Adapters :
        /\ HasLivePump(a)
        /\ tasks[PumpOf(a)].pc = "events"
        /\ retryLog[a].failed >= 1
        /\ states[a].connected = FALSE

\* --------------------------------------------- claims on subscriber release
\* the consumer of c has left its loop
Exited(c) == consumer[c] \in {"abandoned", "closed"}
Gone(c) ==
    /\ c \notin subscribers
    /\ drop_stats[c] = NoDrop
    /\ queues[c] = <<>>

SubscriberCount == Cardinality(subscribers)

LogsWarning(c) ==
    \/ lastOp.preDrops[c] = NoDrop
    \/ now - lastOp.preDrops[c].last >= settings.drop_log_interval

\* C15: throttled drop logging, per subscriber.  The first overflow emits
\* one warning and starts the record (pending 0, last_log_t now); a further
\* overflow within drop_log_interval emits nothing and increments pending;
\* the first overflow at or after the interval emits one summary warning and
\* resets the record to (0, now); a successful delivery deletes the record.
C15_ThrottledDropLog ==
    lastOp.op = "publish" =>
        /\ \A c \in lastOp.preSubs :
              IF ~WasFull(c) THEN drop_stats[c] = NoDrop
              ELSE IF LogsWarning(c)
              THEN drop_stats[c] = [count |-> 0, last |-> now]
              ELSE drop_stats[c] =
                       [count |-> lastOp.preDrops[c].count + 1,
                        last |-> lastOp.preDrops[c].last]
        /\ lastOp.warnings =
              Cardinality({c \in lastOp.preSubs : WasFull(c) /\ LogsWarning(c)})

\* SignalStore.get_metrics()
GetMetrics ==
    [subscribers |->
         [total |-> Cardinality(subscribers),
          slow |-> Cardinality({c \in Consumers : drop_stats[c] # NoDrop})],
     signals |-> [stored |-> Cardinality({i \in Ids : signals[i] # NoValue})]]

\* C16: slow accounting.  Between store operations metrics().subscribers
\* .total is the number of registered subscribers and .slow the number of
\* drop records; after a publish a registered subscriber has a drop record
\* exactly when the fan-out attempt on it overflowed, so slow counts the
\* subscribers whose last attempt overflowed and a successful enqueue takes
\* the subscriber out of slow.
C16_SlowAccounting ==
    /\ GetMetrics.subscribers.total = Cardinality(subscribers)
    /\ lastOp.op = "publish" =>
          /\ \A c \in lastOp.preSubs : drop_stats[c] # NoDrop <=> WasFull(c)
          /\ GetMetrics.subscribers.slow =
                 Cardinality({c \in lastOp.preSubs : WasFull(c)})

\* C17: set(signal) and set_many(map) change only the signals map: with
\* any number of registered subscribers they enqueue nothing and leave the
\* subscriber set and drop_stats as they were; the map holds the written
\* values afterwards.
C17_SetNotifiesNobody ==
    /\ [](lastOp.op \in {"set", "set_many"} =>
             /\ queues = lastOp.preQueues
             /\ subscribers = lastOp.preSubs
             /\ drop_stats = lastOp.preDrops)
    /\ [][/\ \A s \in Seeds : Set(s) => signals' = StoreSet(signals, s)
          /\ \A S \in SUBSET Seeds :
               SetMany(S) =>
                   /\ \A s \in S : signals'[s.id] = s.value
                   /\ \A i \in Ids :
                        (\A s \in S : s.id # i) => signals'[i] = signals[i]]_vars

\* a set and a set_many were made while two subscribers were registered,
\* one of them with room in its queue
C17_Witness ==
    /\ lastOp.op \in {"set", "set_many"}
    /\ lastOp.preSubs = Consumers
    /\ \E c \in Consumers : queues[c] = <<>>
    /\ \E i \in Ids : signals[i] = MaxPublishes /\ Len(pubLog) < MaxPublishes

\* C18: add(adapter) with a name that is already registered fails with a
\* configuration error and leaves the manager unchanged (same registered
\* adapters, same AdapterState, the earlier adapter object included); add
\* with a new name inserts a state with connected = false, no error and
\* retry_delay = INITIAL.
C18_AddRejectsDuplicate ==
    [][\A a \in Adapters, inst \in Instances :
          Add(a, inst) =>
              IF IsRegistered(a)
              THEN /\ main'.pc = "crashed"
                   /\ registered' = registered
                   /\ states' = states
              ELSE /\ registered' = Append(registered, a)
                   /\ states'[a].adapter = inst
                   /\ states'[a].connected = FALSE
                   /\ states'[a].error = None
                   /\ states'[a].retry_delay = INITIAL_RETRY_DELAY]_vars

\* the stop_all call in progress or last made is a repeated one, or one on
\* a manager whose adapters were never started
RepeatedStop == main.last = "stop" /\ (main.stops >= 2 \/ main.starts = 0)
RegisteredNames == {registered[i] : i \in DOMAIN registered}

FailureStep ==
    \/ StartSnapshotDone(FALSE)
    \/ \E t \in TaskIds :
          \/ PumpStreamEnd(t)
          \/ PumpStreamError(t)
          \/ PumpReconnectDone(t, FALSE)
          \/ RetrySnapshotDone(t, FALSE)
          \/ RetryWake(t)
          \/ PumpWake(t)
          \/ TaskCancelled(t)
    \/ StopAllCall
    \/ StopRetryNext
    \/ StopRetryAwaited
    \/ StopSyncNext
    \/ StopSyncAwaited
    \/ StopCloseDone

\* C20: the store keeps the last-known snapshot through upstream failures.
\* Disconnection, stream end, failed reconnect attempts, pending retries
\* and stop_all leave the signals map unchanged, and no step of the manager
\* or the store removes an id from the map: an id that has a value keeps
\* having one.
C20_SnapshotSurvivesFailures ==
    [][/\ FailureStep => signals' = signals
       /\ \A i \in Ids : signals[i] # NoValue => signals'[i] # NoValue]_vars

\* every adapter delivered a snapshot, one of them then lost its stream and
\* failed a reconnect, stop_all has returned, and both ids are still served
C20_Witness ==
    /\ StopAllReturned
    /\ \A i \in Ids : signals[i] # NoValue
    /\ \E a \in Adapters :
          /\ ~states[a].connected
          /\ retryLog[a].failed >= 1
          /\ PumpOf(a) # NoTask

\* C21: GET /health reports healthy if and only if signal_count > 0, at
\* least one adapter is registered and every registered adapter has
\* connected = true; in every other state, a missing adapter manager
\* included, it reports degraded.
C21_HealthyIff ==
    [][\A mgr \in BOOLEAN :
          HealthCheck(mgr) =>
              /\ lastOp'.response.status \in {"healthy", "degraded"}
              /\ lastOp'.response.status = "healthy" <=>
                     /\ \E i \in Ids : signals[i] # NoValue
                     /\ mgr
                     /\ registered # <<>>
                     /\ \A a \in RegisteredNames : states[a].connected]_vars

\* a health request was answered healthy with two registered adapters
C21_Witness ==
    /\ lastOp.op = "health"
    /\ lastOp.manager
    /\ lastOp.response.status = "healthy"
    /\ Len(lastOp.response.adapters) = 2

\* the signal a conversion of the adapter has emitted, if it emitted one
Emits == result.fn \in {"_extract_signal", "_process_event"}
         /\ ~result.out.raised
Available(s) ==
    /\ (~s.available) <=> (s.value = Absent)
    /\ (s.value = Absent) <=> (s.display_value = "")

\* C22: availability invariant.  Every signal the adapter emits, from a
\* snapshot item through any row of the decision table or from a live
\* event, satisfies available = false <=> value = absent <=>
\* display_value = "", items and payloads whose state or transformedState
\* is the empty string or null included.
C22_AvailabilityInvariant == Emits => Available(result.out.signal)

CancelPending(t) ==
    tasks[t].kind = "sync" /\ tasks[t].cancel /\ Alive(t)

\* C24: pump cancellation is never swallowed.  Once cancel() has been called
\* on a pump task, whatever await it is suspended in (the event iteration and
\* store.publish, the backoff sleep, the reconnect snapshot and set_many),
\* the only step the task takes is to end as cancelled: it starts no other
\* loop iteration, and that step leaves connected, error and retry_delay of
\* its adapter as they were; a cancelled pump stays cancelled.
C24_CancellationPropagates ==
    [][\A t \in TaskIds : \A a \in Adapters :
          /\ (CancelPending(t) /\ tasks[t].name = a /\ tasks'[t] # tasks[t])
                => /\ tasks'[t] = [tasks[t] EXCEPT !.pc = "cancelled"]
                   /\ states'[a] = states[a]
          /\ (tasks[t].kind = "sync" /\ tasks[t].pc = "cancelled")
                => tasks'[t] = tasks[t]]_vars

\* a pump was cancelled in its reconnect phase: after the backoff sleep had
\* advanced the delay and before a reconnect succeeded
C24_Witness ==
    \E t \in TaskIds :
        /\ tasks[t].kind = "sync" /\ tasks[t].pc = "cancelled"
        /\ ~states[tasks[t].name].connected
        /\ states[tasks[t].name].retry_delay > INITIAL_RETRY_DELAY
        /\ \E u \in TaskIds :
               u # t /\ tasks[u].kind = "sync" /\ tasks[u].pc = "cancelled"
                    /\ states[tasks[u].name].connected

\* ---------------------------------------------------------------- C25
\* the pump of adapter a is in its backoff sleep
PumpSleeping(a) == HasLivePump(a) /\ tasks[PumpOf(a)].pc = "sleep"

\* C25: a failed reconnect snapshot of the pump leaves the adapter state as
\* it is (connected = false, retry_delay not reset: it keeps the value the
\* elapsed sleep advanced it to) and the pump continues its outer loop; the
\* pump reaches its next snapshot attempt only through another backoff
\* sleep, and that sleep lasts the increased delay: after k failed
\* reconnects in a row it is min(INITIAL * BACKOFF^k, MAX).
C25_FailedReconnectBacksOff ==
    /\ [](\A a \in Adapters :
            PumpSleeping(a) =>
                /\ retryLog[a].slept = retryLog[a].failed + 1
                /\ states[a].retry_delay = SleepOf(retryLog[a].failed + 1))
    /\ [][\A t \in TaskIds : \A a \in Adapters :
            /\ (tasks[t].name = a /\ PumpReconnectDone(t, FALSE)) =>
                   /\ states'[a] = states[a]
                   /\ states'[a].connected = FALSE
                   /\ states'[a].retry_delay =
                          Backoff(SleepOf(retryLog[a].slept))
                   /\ tasks'[t].pc = "events"
                   /\ retryLog'[a].failed = retryLog[a].failed + 1
            /\ (/\ tasks[t].kind = "sync" /\ tasks[t].name = a
                /\ tasks[t].pc # "snapshot" /\ tasks'[t].pc = "snapshot") =>
                   /\ tasks[t].pc = "sleep"
                   /\ states[a].retry_delay = SleepOf(retryLog[a].failed + 1)
                   /\ states'[a].retry_delay =
                          Backoff(states[a].retry_delay)]_vars

\* a pump sleeps again after two failed reconnect snapshots in a row, with
\* the delay doubled twice
C25_Witness ==
    \E a \in Adapters :
        /\ PumpSleeping(a)
        /\ retryLog[a].failed = 2
        /\ states[a].retry_delay =
               INITIAL_RETRY_DELAY * RETRY_BACKOFF_FACTOR * RETRY_BACKOFF_FACTOR

\* ---------------------------------------------------------------- C26
\* a subscriber's queue is full: the next publish overflows it
QueueOverflows ==
    \E c \in subscribers : Len(queues[c]) >= settings.subscriber_queue_size

\* C26: a subscriber queue overflow during a pump's store.publish has no
\* effect on the upstream side: the step in which the pump publishes an
\* event to a full subscriber queue leaves connected, error and retry_delay
\* of its adapter unchanged and the pump stays in its iteration of
\* subscribe_events.
C26_OverflowIsolatedFromUpstream ==
    [][\A t \in TaskIds : \A a \in Adapters :
          (tasks[t].name = a /\ QueueOverflows /\ PumpEvent(t)) =>
              /\ states'[a] = states[a]
              /\ tasks'[t].pc = "events"]_vars

\* ---------------------------------------------------------------- C27
\* C27: the connected flag reflects the pump.  Whenever the pump of an
\* adapter receives a live signal from subscribe_events and publishes it to
\* the store, the state of that adapter has connected = true, also after a
\* reconnect snapshot has failed and the following subscribe_events call
\* succeeds.
C27_ConnectedReflectsPump ==
    [][\A t \in TaskIds : \A a \in Adapters :
          (tasks[t].name = a /\ PumpEvent(t)) => states[a].connected]_vars

\* ---------------------------------------------------------------- C28
\* the live pump tasks of adapter a
LivePumps(a) ==
    {t \in TaskIds : tasks[t].kind = "sync" /\ tasks[t].name = a /\ Alive(t)}

\* C28: at most one pump task of each registered adapter is alive at any
\* time, under any sequence of start_all calls (a repeated one included),
\* retry firings, reconnect cycles and stop_all, and sync_task of the
\* adapter's state refers to that pump.
C28_SinglePump ==
    \A a \in Adapters :
        /\ Cardinality(LivePumps(a)) <= 1
        /\ \A t \in LivePumps(a) : states[a].sync_task = t

\* ---------------------------------------------------------------- C29
\* C29: stop_all returns normally for every interleaving with the manager's
\* retry tasks: no stop_all call ends with an exception, also when a retry
\* task's sleep elapses, and the task deletes its entry from _retry_tasks,
\* while stop_all awaits another cancelled retry task.
C29_StopAllNeverRaises ==
    main.last = "stop" => main.pc # "crashed"

\* ---------------------------------------------------------------- C30
\* the retry tasks of adapter a that are in their sleep, and its entries in
\* the pending-retries map
PendingRetries(a) ==
    {t \in TaskIds : tasks[t].kind = "retry" /\ tasks[t].name = a
                     /\ tasks[t].pc = "sleep" /\ Alive(t)}
RetryEntries(a) == {i \in DOMAIN retry_tasks : retry_tasks[i].name = a}
RetryTasksOf(tk) == {t \in TaskIds : tk[t].kind = "retry"}

\* C30: at most one retry task is pending per adapter at any time, and it
\* is the one the pending-retries map holds.  A start attempt that fails
\* for a name with a pending retry creates no task and leaves the map as it
\* is; one that fails for a name without an entry creates the next retry
\* task, the only pending one; a retry task whose sleep has elapsed removes its own entry before
\* it enters the start attempt.
C30_SinglePendingRetry ==
    /\ [](\A a \in Adapters :
            /\ Cardinality(PendingRetries(a)) <= 1
            /\ Cardinality(RetryEntries(a)) <= 1
            /\ \A t \in PendingRetries(a) :
                   \E i \in RetryEntries(a) : retry_tasks[i].task = t)
    /\ [][/\ \A a \in Adapters :
               AttemptFails(a) =>
                   /\ a \in RetryNames(retry_tasks')
                   /\ a \in RetryNames(retry_tasks) =>
                          /\ retry_tasks' = retry_tasks
                          /\ RetryTasksOf(tasks') \subseteq RetryTasksOf(tasks)
                          /\ PendingRetries(a)' = PendingRetries(a)
                   /\ a \notin RetryNames(retry_tasks) =>
                          /\ Len(retry_tasks') = Len(retry_tasks) + 1
                          /\ PendingRetries(a) = {}
                          /\ Cardinality(PendingRetries(a))' = 1
          /\ \A t \in TaskIds : \A a \in Adapters :
               (tasks[t].name = a /\ RetryWake(t)) =>
                   /\ a \in RetryNames(retry_tasks)
                   /\ a \notin RetryNames(retry_tasks')
                   /\ tasks'[t].pc = "snapshot"]_vars

\* a second start attempt has failed while the retry of the first was
\* pending: one sleep was started for two failures, one retry task exists
C30_Witness ==
    \E a \in Adapters :
        /\ retryLog[a].failed = 2 /\ retryLog[a].slept = 1
        /\ Cardinality(PendingRetries(a)) = 1
        /\ Cardinality(RetryTasksOf(tasks)) = 1
        /\ Cardinality(RetryEntries(a)) = 1

\* ---------------------------------------------------------------- C31
RECURSIVE Numbered(_, _)
\* the first n signals of adapter a's event stream, in yield order
Numbered(a, n) ==
    IF n = 0 THEN <<>>
    ELSE Append(Numbered(a, n - 1), [id |-> IdOf(a), value |-> n])

\* C31: the pump forwards live signals faithfully.  The signals a pump has
\* passed to store.publish are the signals subscribe_events has yielded to
\* it, each once and in yield order, across reconnect cycles; and in the
\* step in which a signal is yielded store.publish is called with it (the
\* store holds its value) before the next signal is requested.
C31_PumpForwardsFaithfully ==
    /\ [](\A a \in Adapters : forwarded[a] = Numbered(a, yielded[a]))
    /\ [][\A a \in Adapters :
            yielded'[a] # yielded[a] =>
                /\ yielded'[a] = yielded[a] + 1
                /\ lastOp'.op = "publish"
                /\ lastOp'.sig = [id |-> IdOf(a), value |-> yielded'[a]]
                /\ signals'[IdOf(a)] = yielded'[a]]_vars

\* a pump has forwarded the first signal, lost its stream, passed a
\* reconnect cycle (the store holds the snapshot's value again) and iterates
\* subscribe_events anew with its forwarding history intact
C31_Witness ==
    \E a \in Adapters :
        /\ HasLivePump(a) /\ tasks[PumpOf(a)].pc = "events"
        /\ states[a].connected
        /\ yielded[a] = 1
        /\ forwarded[a] = <<[id |-> IdOf(a), value |-> 1]>>
        /\ \A s \in SnapshotSignals(a) : signals[s.id] = s.value

\* ---------------------------------------------------------------- C32
\* the value of id i subscriber c ends with once it has drained its queue:
\* the last signal of i among those it has received and those queued for it
LastOf(seq, i) ==
    LET at == {k \in DOMAIN seq : seq[k].id = i} IN
    IF at = {} THEN NoValue
    ELSE seq[CHOOSE k \in at : \A m \in at : m <= k].value
View(c, i) == LastOf(delivered[c] \o queues[c], i)

\* C32: store and subscriber views converge.  Every write of an id made
\* while a subscriber is registered and has room in its queue (by publish,
\* or by the set_many of a start or of a pump reconnect) leaves that
\* subscriber's view of the id equal to the stored value, so that a
\* subscriber registered since before the last write of an id, never
\* overflowed and drained, has received store.get(id) last.
C32_ViewsConverge ==
    [][\A c \in Consumers : \A i \in Ids :
          (/\ c \in subscribers /\ c \in subscribers'
           /\ ~QueueFull(queues[c], settings)
           /\ signals'[i] # signals[i]) =>
              View(c, i)' = signals'[i]]_vars

\* ---------------------------------------------------------------- C33
\* store.subscribe() has returned a handle to consumer c and the handle has
\* not been released
HoldsHandle(c) ==
    consumer[c] \in {"created", "waiting", "yielded", "abandoned"}

\* C33: no publish is missed between subscribing and consuming.  From the
\* moment subscribe() has returned a handle until the handle is released the
\* subscriber is counted by the metrics, and every publish call made in that
\* time either enqueues its signal for the subscriber or is accounted in the
\* subscriber's drop record, whenever the consumer first dequeues.
C33_NoPublishMissed ==
    /\ [](\A c \in Consumers :
            HoldsHandle(c) =>
                /\ c \in subscribers
                /\ GetMetrics.subscribers.total >=
                       Cardinality({d \in Consumers : HoldsHandle(d)}))
    /\ [][\A c \in Consumers :
            (HoldsHandle(c) /\ pubLog' # pubLog) =>
                \/ queues'[c] = Append(queues[c], lastOp'.sig)
                \/ (drop_stats'[c] # NoDrop
                    /\ drop_stats'[c] # drop_stats[c])]_vars

\* ---------------------------------------------------------------- C34
\* C34: lock discipline.  Every step that changes the signals map (set,
\* set_many, the write of publish) and every step that changes the
\* subscriber set (the registration made by the first iteration of
\* subscribe(), the release made by its finally clause) runs the changing
\* statement with the store mutex held; the subscriber snapshot of the
\* fan-out is the subscriber set of one state.
C34_LockDiscipline ==
    [][/\ \A c \in Consumers :
            ConsumerStart(c) => MutexHeldIn("register_subscriber")
       /\ \A c \in Consumers :
            (ConsumerClose(c) \/ GeneratorFinalize(c)) =>
                MutexHeldIn("unregister_subscriber")
       /\ pubLog' # pubLog =>
            /\ MutexHeldIn("set")
            /\ lastOp'.preSubs = subscribers
       /\ \A s \in Seeds : Set(s) => MutexHeldIn("set")
       /\ \A S \in SUBSET Seeds : SetMany(S) => MutexHeldIn("set_many")]_vars

\* ---------------------------------------------------------------- C35
\* the subscribers that have a drop record: the keys of _drop_stats
SlowSubscribers == {c \in Consumers : drop_stats[c] # NoDrop}

\* C35: in every reachable state every subscriber that has a drop record is
\* a registered subscriber, so metrics().subscribers.slow is at most
\* metrics().subscribers.total, under any interleaving of publish, subscribe
\* and release.
C35_SlowAreRegistered ==
    /\ SlowSubscribers \subseteq subscribers
    /\ GetMetrics.subscribers.slow <= GetMetrics.subscribers.total

\* a subscriber that had a drop record has been released while another
\* subscriber stays registered
C35_Witness ==
    /\ lastOp.op \in {"close", "finalize"}
    /\ lastOp.preDrops[lastOp.caller] # NoDrop
    /\ lastOp.caller \notin subscribers
    /\ subscribers # {}

\* the entries of a run of subscribe_events that are the given operation,
\* and the data lines of a stream
OpsOf(trace, op) == SelectSeq(trace, LAMBDA e : e.op = op)
DataLinesOf(lines) == SelectSeq(lines, LAMBDA line : line.head = "data:")

\* C36: the content of a data line received after the connection id never
\* terminates the live event sequence: whatever the lines hold (text that
\* is not JSON, JSON that is not an object of the expected shape, an item
\* whose processing raises), subscribe_events does not raise and every
\* later data line is still reached and parsed
C36_ContentNeverEndsStream ==
    result.fn = "subscribe_events" =>
        /\ ~result.out.raised
        /\ Len(DataLinesOf(given.arg)) > 0 =>
               Len(OpsOf(result.out.trace, "json.loads"))
                   = Len(DataLinesOf(given.arg)) - 1

\* the texts of the data lines of a stream, in order
RECURSIVE DataTexts(_)
DataTexts(lines) ==
    IF lines = <<>> THEN <<>>
    ELSE (IF Head(lines).head = "data:"
          THEN <<CHOOSE text \in Texts : Head(lines) = DataLine(text)>>
          ELSE <<>>) \o DataTexts(Tail(lines))

\* C37: the protocol order of a subscribe_events run: the first data line
\* is the connection id and is never given to the JSON parser; exactly
\* one subscribe POST is issued, with that id in its URL and the tracked
\* raw item names as its body, before anything is yielded; every later
\* data line is parsed as an event, in order; and no signal is yielded
\* for an item name that is not in the metadata cache
C37_StreamProtocolOrder ==
    (result.fn = "subscribe_events" /\ DataTexts(given.arg) # <<>>) =>
        LET texts == DataTexts(given.arg)
            trace == result.out.trace
            loads == OpsOf(trace, "json.loads")
        IN  /\ Len(OpsOf(trace, "POST")) = 1
            /\ trace[1] = [op |-> "POST",
                           arg |-> "/rest/events/states/" \o Head(texts),
                           names |-> DOMAIN item_metadata,
                           signal |-> NoEmitted]
            /\ [i \in 1..Len(loads) |-> loads[i].arg] = Tail(texts)
            /\ \A i \in 1..Len(trace) :
                   trace[i].op = "yield" =>
                       trace[i].signal.id \in
                           {"oh:" \o name : name \in DOMAIN item_metadata}

\* the decision table of the snapshot normalization, first matching row
\* first, with the signal type that belongs to each base type
TypeByBase(base_type) ==
    CASE base_type = "Number" -> "number"
      [] base_type = "Dimmer" -> "number"
      [] base_type = "Rollershutter" -> "number"
      [] base_type = "Switch" -> "boolean"
      [] base_type = "Contact" -> "boolean"
      [] base_type = "DateTime" -> "datetime"
      [] base_type = "Player" -> "enum"
      [] OTHER -> "string"
TableRow(item) ==
    LET base == IF item.type = "Number:Power" THEN "Number" ELSE item.type
    IN  IF item.transformedState # Missing
        THEN [row |-> "T1", unit |-> "", signal_type |-> "string",
              event_state_contains_unit |-> FALSE]
        ELSE IF base = "DateTime"
        THEN [row |-> "T2", unit |-> "", signal_type |-> "datetime",
              event_state_contains_unit |-> FALSE]
        ELSE IF item.pattern # Missing
        THEN [row |-> "T3",
              unit |-> IF item.pattern = "%.1f W" THEN "W" ELSE "",
              signal_type |-> TypeByBase(base),
              event_state_contains_unit |-> TRUE]
        ELSE IF item.type = "Number:Power"
        THEN [row |-> "T4", unit |-> "W", signal_type |-> TypeByBase(base),
              event_state_contains_unit |-> TRUE]
        ELSE IF base \in {"Rollershutter", "Dimmer"}
        THEN [row |-> "T5", unit |-> "%", signal_type |-> "number",
              event_state_contains_unit |-> FALSE]
        ELSE [row |-> "T6", unit |-> "", signal_type |-> TypeByBase(base),
              event_state_contains_unit |-> FALSE]

\* C38: for every item record that _extract_signal converts, the emitted
\* unit and signal_type and the recorded event_state_contains_unit are
\* those of the first row of the decision table whose guard holds, the id
\* is the prefix, a colon and the raw item name, and an item whose raw
\* state is UNDEF or NULL is converted with the same unit and signal_type
\* and its metadata is recorded
C38_DecisionTable ==
    result.fn = "_extract_signal" =>
        LET item == given.arg
            row == TableRow(item)
            out == result.out
        IN  /\ item.state \in {UNDEFINED_VALUE, NULL_VALUE} => ~out.raised
            /\ ~out.raised =>
                  /\ out.signal.unit = row.unit
                  /\ out.signal.signal_type = row.signal_type
                  /\ out.signal.id = "oh:" \o item.name
                  /\ out.metadata # NoMetadata
                  /\ out.metadata.event_state_contains_unit
                         = row.event_state_contains_unit
                  /\ out.metadata.unit = row.unit
                  /\ out.metadata.signal_type = row.signal_type

\* a Number:Power item without pattern whose state is UNDEF has been
\* converted: NUMBER with the default unit of its quantity, unavailable
C38_Witness ==
    /\ result.fn = "_extract_signal"
    /\ given.arg.type = "Number:Power"
    /\ given.arg.state = UNDEFINED_VALUE
    /\ given.arg.pattern = Missing
    /\ given.arg.transformedState = Missing
    /\ ~result.out.raised
    /\ result.out.signal.unit = "W"
    /\ result.out.signal.signal_type = "number"
    /\ ~result.out.signal.available
    /\ result.out.metadata.event_state_contains_unit

\* the signal carries the signal_type, unit and label of the metadata
CarriesCached(signal, metadata) ==
    /\ signal.signal_type = metadata.signal_type
    /\ signal.unit = metadata.unit
    /\ signal.label = metadata.label

C40_BooleanCoercion ==
    (result.fn = "_coerce_value" /\ given.arg.signal_type = "boolean") =>
        result.out =
            IF given.arg.display \in {"ON", "OPEN"}
            THEN [t |-> "bool", v |-> "True"]
            ELSE IF given.arg.display \in {"OFF", "CLOSED"}
            THEN [t |-> "bool", v |-> "False"]
            ELSE StrVal(given.arg.display)

====
